---- MODULE Spec2Model ----
\* Verification model of the multi-bot dispatch core of DiscordFix:
\*   CampaignRateLimiter (campaign pacer)      src/shared/rate_limiter.py
\*   DiscordRateLimiter / RateLimitBucket      src/shared/rate_limiter.py
\*   MemberAssignmentManager                   src/shared/member_assignment.py
\*   CampaignController / DiscordBotWorker     src/controller, src/worker
\*   BotManager (add, remove, availability)    src/controller/bot_manager.py
\* Each component has its own specification over the shared variable list; the
\* variables of the other components stay at their initial values.
EXTENDS Integers, Sequences, FiniteSets, TLC

VARIABLES
    \* ---- CampaignRateLimiter -------------------------------------------
    messages_per_minute,  \* self.messages_per_minute
    message_times,        \* self.message_times, kept as ages (now - t)
    pacer_lock,           \* holder of self.lock, or NoTask
    pacer_waiters,        \* tasks queued on self.lock, FIFO
    ppc,                  \* where each caller of acquire() stands
    psleep,               \* seconds left of a caller's asyncio.sleep
    grant_log,            \* observer: age and limit of every grant
    \* ---- DiscordRateLimiter (one bot) ----------------------------------
    global_rate_limit,    \* seconds until self.global_rate_limit, 0 = None/past
    buckets,              \* self.buckets: key -> RateLimitBucket
    lim_locks,            \* self.locks: key -> holder, or NoTask
    lim_waiters,          \* key -> tasks queued on that lock, FIFO
    lpc,                  \* where each caller of acquire() stands
    lbucket,              \* the bucket key of a caller's acquire()
    lsleep,               \* seconds left of a caller's asyncio.sleep
    lslept,               \* observer: the call in progress has slept
    cooldown_obs,         \* observer: seconds until the latest t + r of any
                          \* global 429 recorded so far
    lim_epoch,            \* observer: N and reset time of the prepared bucket
    lim_count,            \* observer: acquire() returns on the prepared bucket
    lim_event,            \* observer: the latest acquire() return
    \* ---- MemberAssignmentManager ---------------------------------------
    assignments,          \* the member_bot_assignments collection
    resolver,             \* get_or_create_assignment calls in progress
    asg_call,             \* observer: the latest completed operation
    asg_raced,            \* observer: an insert_one hit the unique index
    \* ---- CampaignController and the workers ----------------------------
    campaigns,            \* the campaigns collection, indexed by campaign id
    targets,              \* the campaign_targets collection, in insertion order
    sends,                \* the sends collection, in insertion order
    active_workers,       \* bot_worker.active_workers: bot id -> worker
    campaign_tasks,       \* self.campaign_tasks (its keys)
    active_campaigns,     \* self.active_campaigns: id -> status held in memory
    exec_task,            \* the _execute_campaign task of each started campaign
    camp_call,            \* observer: the latest start, pause or cancel call
    start_calls,          \* start_campaign calls in progress, by caller
    tasks_created,        \* observer: create_task calls per campaign
    stopped,              \* observer: campaigns a pause or cancel succeeded on
    \* ---- BotManager and the life of a worker ---------------------------
    bots,                 \* the bots collection: bot id -> status
    bot_health,           \* the bot_health collection: bot id -> status
    worker_life,          \* bot id -> where its worker's client stands
    removing,             \* remove_bot calls: bot id -> where the call stands
    avail_obs             \* observer: the latest get_available_bots_for_guild

None == "none"
NoTask == 0   \* no task holds the lock

pacerVars == <<messages_per_minute, message_times, pacer_lock, pacer_waiters,
               ppc, psleep, grant_log>>

limVars == <<global_rate_limit, buckets, lim_locks, lim_waiters, lpc, lbucket,
             lsleep, lslept, cooldown_obs, lim_epoch, lim_count, lim_event>>

asgVars == <<assignments, resolver, asg_call, asg_raced>>

campVars == <<campaigns, targets, sends, active_workers, campaign_tasks,
              active_campaigns, exec_task, camp_call>>

startVars == <<start_calls, tasks_created, stopped>>

fleetVars == <<bots, bot_health, worker_life, removing, avail_obs>>

vars == <<pacerVars, limVars, asgVars, campVars, startVars, fleetVars>>

\* What the actions of one component leave alone.
NotPacer == <<limVars, asgVars, campVars, startVars, fleetVars>>
NotLimiter == <<pacerVars, asgVars, campVars, startVars, fleetVars>>
NotAssign == <<pacerVars, limVars, campVars, startVars, fleetVars>>
NotCampaign == <<pacerVars, limVars, asgVars, startVars, fleetVars>>
NotFleet == <<pacerVars, limVars, asgVars, startVars>>
NotStart == <<pacerVars, limVars, asgVars, fleetVars>>

\* ---------------------------------------------------------------------
\* Generic helpers
\* ---------------------------------------------------------------------
Min2(a, b) == IF a < b THEN a ELSE b
Max2(a, b) == IF a > b THEN a ELSE b

RECURSIVE SeqMax(_)
SeqMax(s) == IF Len(s) = 0 THEN 0 ELSE Max2(Head(s), SeqMax(Tail(s)))

\* =====================================================================
\* CampaignRateLimiter (rate_limiter.py 185-220)
\* =====================================================================
PacerCallers == 2          \* concurrent callers of acquire()
MaxPace == 2               \* largest messages_per_minute tried
Window == 60               \* the trailing window, seconds
PacerStep == Window \div 3 \* granularity of the model's clock

PCallers == 1..PacerCallers

\* message_times = [t for t in message_times if t > cutoff_time]:
\* an entry survives when its age is below the window.
PurgeKeeps(age) == age < Window
Purge(times) == SelectSeq(times, PurgeKeeps)

\* A slip of the comparison: the window counts as full one grant too late.
WindowFullOffByOne(times, limit) == Len(times) > limit

\* len(self.message_times) >= self.messages_per_minute
WindowFull(times, limit) == Len(times) >= limit

\* wait_time = 60.0 - (current_time - min(message_times))
WaitTime(times) == Window - SeqMax(times)

PacerStart(paces) ==
    /\ messages_per_minute \in paces
    /\ message_times = <<>>
    /\ pacer_lock = NoTask
    /\ pacer_waiters = <<>>
    /\ ppc = [c \in PCallers |-> "idle"]
    /\ psleep = [c \in PCallers |-> 0]
    /\ grant_log = <<>>

\* acquire(): the part run once the lock is taken, up to the first await.
PacerEnter(c) ==
    LET kept == Purge(message_times) IN
    IF WindowFull(kept, messages_per_minute) /\ WaitTime(kept) > 0
    THEN \* await asyncio.sleep(wait_time), the lock still held
         /\ message_times' = kept
         /\ pacer_lock' = c
         /\ ppc' = [ppc EXCEPT ![c] = "sleeping"]
         /\ psleep' = [psleep EXCEPT ![c] = WaitTime(kept)]
         /\ UNCHANGED grant_log
    ELSE \* message_times.append(current_time); return True
         /\ message_times' = Append(kept, 0)
         /\ grant_log' = Append(grant_log,
                                [age |-> 0, limit |-> messages_per_minute])
         /\ UNCHANGED <<pacer_lock, ppc, psleep>>

\* A task calls acquire(): it takes the free lock at once, or queues on it.
PacerAcquire(c) ==
    /\ ppc[c] = "idle"
    /\ IF pacer_lock = NoTask
       THEN PacerEnter(c) /\ UNCHANGED pacer_waiters
       ELSE /\ ppc' = [ppc EXCEPT ![c] = "lockwait"]
            /\ pacer_waiters' = Append(pacer_waiters, c)
            /\ UNCHANGED <<message_times, pacer_lock, psleep, grant_log>>
    /\ UNCHANGED <<messages_per_minute, NotPacer>>

\* The sleep is over: `return await self.acquire()` runs inside the
\* `async with self.lock` block of the outer call, so the inner call queues
\* on a lock its own task holds (asyncio.Lock is not re-entrant).
PacerWake(c) ==
    /\ ppc[c] = "sleeping"
    /\ psleep[c] = 0
    /\ ppc' = [ppc EXCEPT ![c] = "relock"]
    /\ pacer_waiters' = Append(pacer_waiters, c)
    /\ UNCHANGED <<messages_per_minute, message_times, pacer_lock, psleep,
                   grant_log, NotPacer>>

\* update_pace(new_messages_per_minute)
PacerUpdatePace(n) ==
    /\ messages_per_minute' = n
    /\ UNCHANGED <<message_times, pacer_lock, pacer_waiters, ppc, psleep,
                   grant_log, NotPacer>>

AgeBy(age, cap) == Min2(age + PacerStep, cap)
LogKeeps(g) == g.age < 2 * Window

\* time.time() advances by one step.
PacerTick ==
    /\ message_times' = [i \in DOMAIN message_times |->
                            AgeBy(message_times[i], Window)]
    /\ psleep' = [c \in PCallers |-> Max2(psleep[c] - PacerStep, 0)]
    /\ grant_log' = SelectSeq(
          [i \in DOMAIN grant_log |->
              [grant_log[i] EXCEPT !.age = AgeBy(@, 2 * Window)]],
          LogKeeps)
    /\ UNCHANGED <<messages_per_minute, pacer_lock, pacer_waiters, ppc, NotPacer>>

NextPacer ==
    \/ \E c \in PCallers : PacerAcquire(c)
    \/ \E c \in PCallers : PacerWake(c)
    \/ \E n \in 1..MaxPace : PacerUpdatePace(n)
    \/ PacerTick

\* =====================================================================
\* DiscordRateLimiter and RateLimitBucket (rate_limiter.py 17-167)
\* Times are kept relative to time.time(): a stored timestamp is the number
\* of seconds it still lies in the future, 0 once it has passed or is None.
\* =====================================================================
LimCallers == 2     \* concurrent callers of acquire()
MaxDelay == 1       \* largest retry-after / reset-after header, seconds
MaxHeader == 1      \* largest x-ratelimit-limit / -remaining header
MaxLimit == 2       \* largest N of a bucket prepared with remaining = limit = N
MaxReset == 2       \* latest reset of a prepared bucket, seconds ahead

LCallers == 1..LimCallers
LimBuckets == {"dm_channels", "guild_members"}
PreparedBucket == "dm_channels"
NoHeader == -1      \* the header is absent from the response

\* RateLimitBucket(): remaining 0, limit 1, reset_timestamp 0.0, no retry_after
FreshBucket == [exists |-> FALSE, remaining |-> 0, limit |-> 1,
                reset |-> 0, retry |-> 0]

\* A test that looks at the budget alone, whatever the reset time.
IsRateLimitedEmpty(bk) ==
    \/ bk.retry > 0
    \/ bk.remaining <= 0

\* A slip of the comparison: an exhausted bucket is let through.
IsRateLimitedLax(bk) ==
    \/ bk.retry > 0
    \/ bk.remaining < 0 /\ bk.reset > 0

\* RateLimitBucket.is_rate_limited
IsRateLimited(bk) ==
    \/ bk.retry > 0
    \/ bk.remaining <= 0 /\ bk.reset > 0

\* RateLimitBucket.time_until_reset
TimeUntilReset(bk) ==
    IF bk.retry > 0 THEN bk.retry
    ELSE IF bk.reset > 0 THEN bk.reset
    ELSE 0

\* RateLimitBucket.update_from_headers
UpdateFromHeaders(bk, h) ==
    [bk EXCEPT
        !.remaining = IF h.remaining # NoHeader THEN h.remaining ELSE @,
        !.limit     = IF h.limit # NoHeader THEN h.limit ELSE @,
        !.reset     = IF h.reset_after # NoHeader THEN h.reset_after ELSE @,
        !.retry     = IF h.retry_after # NoHeader THEN h.retry_after ELSE @]

Headers ==
    [remaining   : {NoHeader} \cup 0..MaxHeader,
     limit       : {NoHeader} \cup 1..MaxHeader,
     reset_after : {NoHeader} \cup 1..MaxDelay,
     retry_after : {NoHeader} \cup 1..MaxDelay]

\* if bucket.remaining > 0: bucket.remaining -= 1
Decrement(bk) ==
    IF bk.remaining > 0 THEN [bk EXCEPT !.remaining = @ - 1] ELSE bk

\* bucket.remaining = bucket.limit; bucket.retry_after = None
ResetAfterWait(bk) == [bk EXCEPT !.remaining = bk.limit, !.retry = 0]

LimStart(prepared) ==
    /\ global_rate_limit = 0
    /\ buckets \in {[b \in LimBuckets |->
                        IF b = PreparedBucket THEN bk ELSE FreshBucket] :
                    bk \in prepared}
    /\ lim_locks = [b \in LimBuckets |-> NoTask]
    /\ lim_waiters = [b \in LimBuckets |-> <<>>]
    /\ lpc = [c \in LCallers |-> "idle"]
    /\ lbucket = [c \in LCallers |-> PreparedBucket]
    /\ lsleep = [c \in LCallers |-> 0]
    /\ lslept = [c \in LCallers |-> FALSE]
    /\ cooldown_obs = 0
    /\ lim_epoch = IF buckets[PreparedBucket].exists
                   THEN [n |-> buckets[PreparedBucket].limit,
                         reset |-> buckets[PreparedBucket].reset]
                   ELSE [n |-> 0, reset |-> 0]
    /\ lim_count = 0
    /\ lim_event = [kind |-> "none", nth |-> 0, slept |-> FALSE,
                    cooldown |-> 0, reset_left |-> 0]

\* A bucket as update_from_headers leaves it on a response that carries
\* remaining = limit = N and a reset-after in the future.
FullBuckets ==
    {[exists |-> TRUE, remaining |-> n, limit |-> n, reset |-> r, retry |-> 0] :
        n \in 1..MaxLimit, r \in 1..MaxReset}

\* The observer numbers the returns on a prepared bucket.
Counted(b) == b = PreparedBucket /\ lim_epoch.n > 0

\* `return True`, leaving `async with self.locks[bucket_key]`: the lock goes
\* to the first task queued on it.
LimReturn(c, b, slept) ==
    /\ lim_locks' = [lim_locks EXCEPT ![b] =
            IF lim_waiters[b] = <<>> THEN NoTask ELSE Head(lim_waiters[b])]
    /\ lim_waiters' = [lim_waiters EXCEPT ![b] =
            IF @ = <<>> THEN @ ELSE Tail(@)]
    /\ lpc' = [x \in LCallers |->
            IF x = c THEN "idle"
            ELSE IF lim_waiters[b] # <<>> /\ x = Head(lim_waiters[b])
                 THEN "ready" ELSE lpc[x]]
    /\ lsleep' = [lsleep EXCEPT ![c] = 0]
    /\ lslept' = [lslept EXCEPT ![c] = FALSE]
    /\ lim_count' = IF Counted(b)
                    THEN Min2(lim_count + 1, MaxLimit + 2) ELSE lim_count
    /\ lim_event' = [kind |-> "return",
                     nth |-> IF Counted(b) THEN lim_count + 1 ELSE 0,
                     slept |-> Counted(b) /\ slept,
                     cooldown |-> cooldown_obs,
                     reset_left |-> lim_epoch.reset]

\* acquire() from "Get or create bucket" on, up to the next await.
LimBucketPhase(c, b, slept) ==
    LET bk == [buckets[b] EXCEPT !.exists = TRUE] IN
    IF IsRateLimited(bk)
    THEN \* await asyncio.sleep(bucket.time_until_reset())
         /\ buckets' = [buckets EXCEPT ![b] = bk]
         /\ lim_locks' = [lim_locks EXCEPT ![b] = c]
         /\ lpc' = [lpc EXCEPT ![c] = "bsleep"]
         /\ lsleep' = [lsleep EXCEPT ![c] = TimeUntilReset(bk)]
         /\ lslept' = [lslept EXCEPT ![c] = TRUE]
         /\ UNCHANGED <<lim_waiters, lim_count, lim_event>>
    ELSE /\ buckets' = [buckets EXCEPT ![b] = Decrement(bk)]
         /\ LimReturn(c, b, slept)

\* acquire() from the top of the locked block, up to the next await.
LimEnter(c, b) ==
    IF global_rate_limit > 0
    THEN \* await asyncio.sleep(self.global_rate_limit - time.time())
         /\ lim_locks' = [lim_locks EXCEPT ![b] = c]
         /\ lpc' = [lpc EXCEPT ![c] = "gsleep"]
         /\ lsleep' = [lsleep EXCEPT ![c] = global_rate_limit]
         /\ lslept' = [lslept EXCEPT ![c] = TRUE]
         /\ UNCHANGED <<global_rate_limit, buckets, lim_waiters, lim_count,
                        lim_event>>
    ELSE /\ LimBucketPhase(c, b, FALSE)
         /\ UNCHANGED global_rate_limit

\* A task calls acquire(method, endpoint) for bucket key b.
LimAcquire(c, b) ==
    /\ lpc[c] = "idle"
    /\ lbucket' = [lbucket EXCEPT ![c] = b]
    /\ IF lim_locks[b] = NoTask
       THEN LimEnter(c, b)
       ELSE /\ lpc' = [lpc EXCEPT ![c] = "lockwait"]
            /\ lim_waiters' = [lim_waiters EXCEPT ![b] = Append(@, c)]
            /\ UNCHANGED <<global_rate_limit, buckets, lim_locks, lsleep,
                           lslept, lim_count, lim_event>>
    /\ UNCHANGED <<cooldown_obs, lim_epoch, NotLimiter>>

\* A queued task has been handed the lock and runs.
LimRun(c) ==
    /\ lpc[c] = "ready"
    /\ LimEnter(c, lbucket[c])
    /\ UNCHANGED <<lbucket, cooldown_obs, lim_epoch, NotLimiter>>

\* The sleep on the global cooldown is over: self.global_rate_limit = None
LimGlobalWake(c) ==
    /\ lpc[c] = "gsleep"
    /\ lsleep[c] = 0
    /\ global_rate_limit' = 0
    /\ LimBucketPhase(c, lbucket[c], TRUE)
    /\ UNCHANGED <<lbucket, cooldown_obs, lim_epoch, NotLimiter>>

\* The sleep on the bucket is over: reset it, take one call, return.
LimBucketWake(c) ==
    /\ lpc[c] = "bsleep"
    /\ lsleep[c] = 0
    /\ buckets' = [buckets EXCEPT ![lbucket[c]] = Decrement(ResetAfterWait(@))]
    /\ LimReturn(c, lbucket[c], TRUE)
    /\ UNCHANGED <<global_rate_limit, lbucket, cooldown_obs, lim_epoch,
                   NotLimiter>>

\* update_rate_limits(..., 429) with x-ratelimit-global: true
LimUpdateGlobal(r) ==
    /\ global_rate_limit' = r
    /\ cooldown_obs' = Max2(cooldown_obs, r)
    /\ UNCHANGED <<buckets, lim_locks, lim_waiters, lpc, lbucket, lsleep,
                   lslept, lim_epoch, lim_count, lim_event, NotLimiter>>

\* update_rate_limits on a 429 of one bucket (the bucket is created when
\* missing) or on any other response (only an existing bucket is updated).
LimUpdateBucket(b, h, is429) ==
    /\ is429 \/ buckets[b].exists
    /\ buckets' = [buckets EXCEPT ![b] =
                      UpdateFromHeaders([@ EXCEPT !.exists = TRUE], h)]
    /\ UNCHANGED <<global_rate_limit, lim_locks, lim_waiters, lpc, lbucket,
                   lsleep, lslept, cooldown_obs, lim_epoch, lim_count,
                   lim_event, NotLimiter>>

Elapse(x) == Max2(x - 1, 0)

\* time.time() advances by one second.
LimTick ==
    /\ global_rate_limit' = Elapse(global_rate_limit)
    /\ buckets' = [b \in LimBuckets |->
                     [buckets[b] EXCEPT !.reset = Elapse(@), !.retry = Elapse(@)]]
    /\ lsleep' = [c \in LCallers |-> Elapse(lsleep[c])]
    /\ cooldown_obs' = Elapse(cooldown_obs)
    /\ lim_epoch' = [lim_epoch EXCEPT !.reset = Elapse(@)]
    /\ UNCHANGED <<lim_locks, lim_waiters, lpc, lbucket, lslept, lim_count,
                   lim_event, NotLimiter>>

NextLimiter ==
    \/ \E c \in LCallers, b \in LimBuckets : LimAcquire(c, b)
    \/ \E c \in LCallers : LimRun(c)
    \/ \E c \in LCallers : LimGlobalWake(c)
    \/ \E c \in LCallers : LimBucketWake(c)
    \/ \E r \in 1..MaxDelay : LimUpdateGlobal(r)
    \/ \E b \in LimBuckets, h \in Headers, is429 \in BOOLEAN :
          LimUpdateBucket(b, h, is429)
    \/ LimTick

\* Consecutive acquire() calls with no response arriving in between.
NextLimiterQuiet ==
    \/ \E c \in LCallers, b \in LimBuckets : LimAcquire(c, b)
    \/ \E c \in LCallers : LimRun(c)
    \/ \E c \in LCallers : LimBucketWake(c)
    \/ LimTick


\* =====================================================================
\* MemberAssignmentManager (member_assignment.py) over the
\* member_bot_assignments collection and its unique index on
\* (guild_id, user_id, is_active) (mongodb_schema.py 270-274, created with
\* unique=True by database.py 64-68).
\* A row keeps the fields that decide control flow: timestamps, the
\* total_dms_sent counter and assignment_reason are written and never read.
\* =====================================================================
Bots == {"b1", "b2", "b3"}
Guilds == {"g1"}
Members == {"m1"}
MaxFallbacks == 3       \* fallback_bots[:3]

Range(s) == {s[i] : i \in DOMAIN s}
InSeq(x, s) == \E i \in DOMAIN s : s[i] = x

\* Lists of distinct bots: available_bots holds one entry per live worker.
RECURSIVE DistinctSeqs(_, _)
DistinctSeqs(S, n) ==
    IF n = 0 THEN {<<>>}
    ELSE LET shorter == DistinctSeqs(S, n - 1) IN
         shorter \cup UNION {{Append(q, x) : x \in S \ Range(q)} :
                             q \in {t \in shorter : Len(t) = n - 1}}
AvailLists == DistinctSeqs(Bots, Cardinality(Bots))
Shuffles(S) == {q \in DistinctSeqs(S, Cardinality(S)) : Len(q) = Cardinality(S)}

PairRows(rows, g, u) == {r \in rows : r.guild = g /\ r.user = u}

\* find_one({'guild_id', 'user_id', 'is_active': True})
ActiveRows(rows, g, u) == {r \in PairRows(rows, g, u) : r.active}

\* The collection was created without the unique flag.
IndexViolatedNever(rows) == FALSE

\* create_index([(guild_id,1),(user_id,1),(is_active,1)], unique=True)
IndexViolated(rows) ==
    \E r1, r2 \in rows :
        /\ r1.id # r2.id
        /\ r1.guild = r2.guild /\ r1.user = r2.user /\ r1.active = r2.active

\* count_documents({'guild_id', 'assigned_bot_id', 'is_active': True})
CountActive(rows, g, b) ==
    Cardinality({r \in rows : r.guild = g /\ r.bot = b /\ r.active})

\* A scan in which a later bot with an equal count replaces the best so far.
BetterOrEqual(best, b, c) ==
    IF best.bot = None \/ c <= best.count THEN [bot |-> b, count |-> c] ELSE best

\* One step of min(available_bots, key=count): a later bot replaces the
\* best so far only with a strictly smaller count.
Better(best, b, c) ==
    IF best.bot = None \/ c < best.count THEN [bot |-> b, count |-> c] ELSE best

RECURSIVE SelectFrom(_, _, _, _, _)
SelectFrom(rows, g, avail, i, best) ==
    IF i > Len(avail) THEN best.bot
    ELSE SelectFrom(rows, g, avail, i + 1,
                    Better(best, avail[i], CountActive(rows, g, avail[i])))

\* selected_bot = min(available_bots, key=lambda bot: counts[bot_id])
SelectBot(rows, g, avail) ==
    SelectFrom(rows, g, avail, 1, [bot |-> None, count |-> 0])

FirstN(q, n) == SubSeq(q, 1, Min2(Len(q), n))

\* A fallback list that keeps every other bot.
FallbackChoicesUncut(avail, sel) == Shuffles(Range(avail) \ {sel})

\* fallback_bots = [others]; random.shuffle(fallback_bots); fallback_bots[:3]
FallbackChoices(avail, sel) ==
    {FirstN(q, MaxFallbacks) : q \in Shuffles(Range(avail) \ {sel})}

\* A slip of the scan: the last usable fallback wins.
RECURSIVE LastUsable(_, _)
LastUsable(fallbacks, avail) ==
    IF fallbacks = <<>> THEN None
    ELSE IF InSeq(fallbacks[Len(fallbacks)], avail) THEN fallbacks[Len(fallbacks)]
    ELSE LastUsable(SubSeq(fallbacks, 1, Len(fallbacks) - 1), avail)

RECURSIVE FirstUsable(_, _)
\* for fallback_bot_id in fallback_bots: if it is in available_bots ...
FirstUsable(fallbacks, avail) ==
    IF fallbacks = <<>> THEN None
    ELSE IF InSeq(Head(fallbacks), avail) THEN Head(fallbacks)
    ELSE FirstUsable(Tail(fallbacks), avail)

\* The outcome of a write: the rows as the write leaves them, or the rows
\* untouched and ok = FALSE when the index rejects it (DuplicateKeyError).
Written(rows, after) ==
    IF IndexViolated(after) THEN [ok |-> FALSE, rows |-> rows]
    ELSE [ok |-> TRUE, rows |-> after]

\* update_many({'guild_id', 'user_id'}, {'$set': {'is_active': False}})
DeactivateMany(rows, g, u) ==
    Written(rows, {IF r.guild = g /\ r.user = u
                   THEN [r EXCEPT !.active = FALSE] ELSE r : r \in rows})

NextId(rows) == Cardinality(rows) + 1

\* insert_one(MemberBotAssignment(..., is_active=True))
InsertOne(rows, g, u, sel, fbs) ==
    Written(rows, rows \cup {[id |-> NextId(rows), guild |-> g, user |-> u,
                              bot |-> sel, fallbacks |-> fbs,
                              active |-> TRUE]})

\* A promotion that swaps the fallback with the primary it replaces.
PromoteSwapping(rows, id, fb) ==
    {IF r.id = id
     THEN [r EXCEPT !.bot = fb,
                    !.fallbacks = [i \in DOMAIN r.fallbacks |->
                                      IF r.fallbacks[i] = fb THEN r.bot
                                      ELSE r.fallbacks[i]]]
     ELSE r : r \in rows}

\* update_one({'_id': existing['_id']}, {'$set': {'assigned_bot_id': fb}})
PromoteById(rows, id, fb) ==
    {IF r.id = id THEN [r EXCEPT !.bot = fb] ELSE r : r \in rows}

\* A migration whose filter leaves out the guild.
ReassignAllGuilds(rows, old, new, g) ==
    {IF r.bot = old /\ r.active THEN [r EXCEPT !.bot = new] ELSE r : r \in rows}

\* update_many({'guild_id', 'assigned_bot_id': old, 'is_active': True},
\*             {'$set': {'assigned_bot_id': new, 'assignment_reason',
\*                       'updated_at'}})
ReassignMany(rows, old, new, g) ==
    {IF r.guild = g /\ r.bot = old /\ r.active
     THEN [r EXCEPT !.bot = new] ELSE r : r \in rows}

\* result.modified_count: every matched row is modified, updated_at is new
ModifiedCount(rows, old, g) ==
    Cardinality({r \in rows : r.guild = g /\ r.bot = old /\ r.active})

Outcome(rows, result, path) == [rows |-> rows, result |-> result, path |-> path]

\* except Exception: return random.choice(available_bots)['bot_id']
RandomPick(rows, avail) == {Outcome(rows, b, "random") : b \in Range(avail)}

\* A create that only appends a row: nothing is deactivated first and the
\* collection has no unique index.
CreateAppendOnly(rows, g, u, avail) ==
    IF avail = <<>> THEN {Outcome(rows, None, "none")}
    ELSE LET sel == SelectBot(rows, g, avail) IN
         {Outcome(rows \cup {[id |-> NextId(rows), guild |-> g, user |-> u,
                              bot |-> sel, fallbacks |-> fbs, active |-> TRUE]},
                  sel, "created") : fbs \in FallbackChoices(avail, sel)}

\* _create_new_assignment, run without interruption
CreateOutcomes(rows, g, u, avail) ==
    IF avail = <<>> THEN {Outcome(rows, None, "none")}
    ELSE LET sel == SelectBot(rows, g, avail)
             d   == DeactivateMany(rows, g, u)
         IN  IF ~d.ok THEN RandomPick(rows, avail)
             ELSE UNION {LET ins == InsertOne(d.rows, g, u, sel, fbs) IN
                         IF ~ins.ok THEN RandomPick(d.rows, avail)
                         ELSE {Outcome(ins.rows, sel, "created")} :
                         fbs \in FallbackChoices(avail, sel)}

\* get_or_create_assignment once find_one has returned `existing`
ExistingOutcomes(rows, existing, g, u, avail) ==
    IF InSeq(existing.bot, avail)
    THEN {Outcome(rows, existing.bot, "primary")}
    ELSE LET fb == FirstUsable(existing.fallbacks, avail) IN
         IF fb # None
         THEN {Outcome(PromoteById(rows, existing.id, fb), fb, "fallback")}
         ELSE CreateOutcomes(rows, g, u, avail)

\* get_or_create_assignment(guild_id, user_id, available_bots), run without
\* interruption: every result it can give and the rows it leaves.
ResolveOutcomes(rows, g, u, avail) ==
    IF ActiveRows(rows, g, u) = {}
    THEN CreateOutcomes(rows, g, u, avail)
    ELSE UNION {ExistingOutcomes(rows, e, g, u, avail) :
                e \in ActiveRows(rows, g, u)}

AsgCallers == 2
Resolvers == 1..AsgCallers

IdleResolver == [pc |-> "idle", guild |-> "g1", user |-> "m1", avail |-> <<>>,
                 id |-> 0, fb |-> None, i |-> 0,
                 best |-> [bot |-> None, count |-> 0]]

NoCall == [op |-> "none", guild |-> "g1", user |-> "m1", avail |-> <<>>,
           path |-> "none", result |-> None, old |-> None, new |-> None,
           count |-> 0]

AsgInit ==
    /\ assignments = {}
    /\ resolver = [k \in Resolvers |-> IdleResolver]
    /\ asg_call = NoCall
    /\ asg_raced = FALSE

\* ---- operations run one at a time -----------------------------------
AsgResolve(g, u, avail) ==
    /\ \E o \in ResolveOutcomes(assignments, g, u, avail) :
          /\ assignments' = o.rows
          /\ asg_call' = [NoCall EXCEPT !.op = "resolve", !.guild = g,
                                         !.user = u, !.avail = avail,
                                         !.path = o.path, !.result = o.result]
    /\ UNCHANGED <<resolver, asg_raced, NotAssign>>

\* reassign_bot_members(old_bot_id, new_bot_id, guild_id)
AsgReassign(old, new, g) ==
    /\ assignments' = ReassignMany(assignments, old, new, g)
    /\ asg_call' = [NoCall EXCEPT !.op = "reassign", !.guild = g,
                                   !.old = old, !.new = new,
                                   !.count = ModifiedCount(assignments, old, g)]
    /\ UNCHANGED <<resolver, asg_raced, NotAssign>>

\* _deactivate_member_assignment(guild_id, user_id): a rejected update is
\* caught and logged.
AsgDeactivate(g, u) ==
    /\ assignments' = DeactivateMany(assignments, g, u).rows
    /\ asg_call' = [NoCall EXCEPT !.op = "deactivate", !.guild = g, !.user = u]
    /\ UNCHANGED <<resolver, asg_raced, NotAssign>>

NextAssign ==
    \/ \E g \in Guilds, u \in Members, avail \in AvailLists :
          AsgResolve(g, u, avail)
    \/ \E old \in Bots, new \in Bots, g \in Guilds : AsgReassign(old, new, g)
    \/ \E g \in Guilds, u \in Members : AsgDeactivate(g, u)

\* ---- fleet maintenance over several guilds -------------------------------
\* Stores as reassign_bot_members can meet them: three (guild, member) pairs,
\* each with at most one active and at most one inactive row (the unique
\* index allows no more); an active row points at any bot, an inactive one
\* at the first.
ReGuilds == {"g1", "g2"}
RePairs == <<[guild |-> "g1", user |-> "m1"], [guild |-> "g1", user |-> "m2"],
            [guild |-> "g2", user |-> "m1"]>>
RowChoices == [DOMAIN RePairs -> Bots \cup {None}]
OldRowChoices == [DOMAIN RePairs -> {"b1", None}]
StoreOf(act, inact) ==
    {[id |-> 2 * i - 1, guild |-> RePairs[i].guild, user |-> RePairs[i].user,
      bot |-> act[i], fallbacks |-> <<>>, active |-> TRUE] :
        i \in {j \in DOMAIN RePairs : act[j] # None}}
    \cup
    {[id |-> 2 * i, guild |-> RePairs[i].guild, user |-> RePairs[i].user,
      bot |-> inact[i], fallbacks |-> <<>>, active |-> FALSE] :
        i \in {j \in DOMAIN RePairs : inact[j] # None}}
ReStores == {StoreOf(act, inact) : act \in RowChoices, inact \in OldRowChoices}

AsgStoresInit ==
    /\ assignments \in ReStores
    /\ resolver = [k \in Resolvers |-> IdleResolver]
    /\ asg_call = NoCall
    /\ asg_raced = FALSE

NextReassign ==
    \E old \in Bots, new \in Bots, g \in ReGuilds : AsgReassign(old, new, g)

\* ---- a new member resolved against a loaded guild -------------------------
\* Stores as _create_new_assignment can meet them: up to three members of
\* the guild already assigned, each to any bot, next to a row of another
\* guild and an inactive row, both on the first bot, which the count
\* leaves out.
LoadMembers == <<"l1", "l2", "l3">>
LoadChoices == [DOMAIN LoadMembers -> Bots \cup {None}]
OtherRows ==
    {[id |-> 1, guild |-> "g2", user |-> "l1", bot |-> "b1",
      fallbacks |-> <<>>, active |-> TRUE],
     [id |-> 2, guild |-> "g1", user |-> "l1", bot |-> "b1",
      fallbacks |-> <<>>, active |-> FALSE]}
LoadedStore(load) ==
    OtherRows \cup
    {[id |-> 2 + Cardinality({j \in 1..i : load[j] # None}),
      guild |-> "g1", user |-> LoadMembers[i], bot |-> load[i],
      fallbacks |-> <<>>, active |-> TRUE] :
        i \in {j \in DOMAIN LoadMembers : load[j] # None}}
LoadedStores == {LoadedStore(load) : load \in LoadChoices}

AsgLoadedInit ==
    /\ assignments \in LoadedStores
    /\ resolver = [k \in Resolvers |-> IdleResolver]
    /\ asg_call = NoCall
    /\ asg_raced = FALSE

NextBalance ==
    \E avail \in AvailLists : AsgResolve("g1", "m1", avail)

\* ---- one member resolved against a fleet of five ---------------------------
\* Lists of available bots drawn from five workers: the head of the fleet
\* in any rotation of its order or in the reverse order, as the scan of the
\* live map returns it while workers come and go.
PoolOrder == <<"b1", "b2", "b3", "b4", "b5">>
Rotated(q, k) == [i \in DOMAIN q |-> q[((i + k - 1) % Len(q)) + 1]]
Reversed(q) == [i \in DOMAIN q |-> q[Len(q) + 1 - i]]
PoolLists ==
    {SubSeq(o, 1, n) : n \in 0..Len(PoolOrder),
        o \in {Rotated(PoolOrder, k) : k \in 0..(Len(PoolOrder) - 1)} \cup
              {Reversed(PoolOrder)}}

NextPool ==
    \E avail \in PoolLists : AsgResolve("g1", "m1", avail)

\* ---- a store operation that raises ------------------------------------
\* The store calls of a resolve, in the order the code reaches them.
StoreOps == {"find_one", "touch", "promote", "count", "deactivate", "insert"}

\* A handler that gives up instead of degrading.
FirstPickNone(rows, avail) == {Outcome(rows, None, "first")}

\* get_or_create_assignment, except Exception: available_bots[0]['bot_id'],
\* or None for an empty list
FirstPick(rows, avail) ==
    {Outcome(rows, IF avail = <<>> THEN None ELSE avail[1], "first")}

\* _create_new_assignment when the store call `failing` raises: its own
\* except branch answers with random.choice(available_bots).
FaultyCreate(rows, g, u, avail, failing) ==
    IF avail = <<>> THEN {Outcome(rows, None, "none")}
    ELSE IF failing \in {"count", "deactivate"} THEN RandomPick(rows, avail)
    ELSE IF failing = "insert"
    THEN LET d == DeactivateMany(rows, g, u) IN
         RandomPick(IF d.ok THEN d.rows ELSE rows, avail)
    ELSE CreateOutcomes(rows, g, u, avail)

\* get_or_create_assignment after find_one, when `failing` raises: the
\* update_one of either branch is inside the outer try.
FaultyExisting(rows, existing, g, u, avail, failing) ==
    IF InSeq(existing.bot, avail)
    THEN IF failing = "touch" THEN FirstPick(rows, avail)
         ELSE {Outcome(rows, existing.bot, "primary")}
    ELSE LET fb == FirstUsable(existing.fallbacks, avail) IN
         IF fb # None
         THEN IF failing = "promote" THEN FirstPick(rows, avail)
              ELSE {Outcome(PromoteById(rows, existing.id, fb), fb, "fallback")}
         ELSE FaultyCreate(rows, g, u, avail, failing)

\* get_or_create_assignment when the store call `failing` raises (a call
\* the path does not reach changes nothing)
FaultyOutcomes(rows, g, u, avail, failing) ==
    IF failing = "find_one" THEN FirstPick(rows, avail)
    ELSE IF ActiveRows(rows, g, u) = {}
    THEN FaultyCreate(rows, g, u, avail, failing)
    ELSE UNION {FaultyExisting(rows, e, g, u, avail, failing) :
                e \in ActiveRows(rows, g, u)}

\* get_or_create_assignment with one store call raising
AsgResolveFaulty(g, u, avail, failing) ==
    /\ \E o \in FaultyOutcomes(assignments, g, u, avail, failing) :
          /\ assignments' = o.rows
          /\ asg_call' = [NoCall EXCEPT !.op = "resolve", !.guild = g,
                                         !.user = u, !.avail = avail,
                                         !.path = o.path, !.result = o.result]
    /\ UNCHANGED <<resolver, asg_raced, NotAssign>>

NextAssignFaulty ==
    \/ NextAssign
    \/ \E g \in Guilds, u \in Members, avail \in AvailLists,
          failing \in StoreOps : AsgResolveFaulty(g, u, avail, failing)

\* ---- get_or_create_assignment, one store operation per step -----------
\* What a call does once find_one has answered with `found` (a set holding
\* the row, or empty): return, go on to update_one, or go on to create.
AfterFind(found, g, u, avail) ==
    LET begun == [IdleResolver EXCEPT !.guild = g, !.user = u, !.avail = avail]
        create == IF avail = <<>> THEN IdleResolver
                  ELSE [begun EXCEPT !.pc = "count", !.i = 1]
    IN  IF found = {} THEN create
        ELSE LET e == CHOOSE r \in found : TRUE IN
             IF InSeq(e.bot, avail) THEN IdleResolver
             ELSE LET fb == FirstUsable(e.fallbacks, avail) IN
                  IF fb # None
                  THEN [begun EXCEPT !.pc = "promote", !.id = e.id, !.fb = fb]
                  ELSE create

Busy(k) == resolver[k].pc # "idle"

\* find_one({'guild_id', 'user_id', 'is_active': True})
AsgFind(k, g, u, avail) ==
    /\ ~Busy(k)
    /\ \E found \in {{}} \cup {{r} : r \in ActiveRows(assignments, g, u)} :
          /\ (found = {}) = (ActiveRows(assignments, g, u) = {})
          /\ resolver' = [resolver EXCEPT ![k] = AfterFind(found, g, u, avail)]
    /\ UNCHANGED <<assignments, asg_call, asg_raced, NotAssign>>

\* update_one({'_id': existing['_id']}, {'$set': {'assigned_bot_id': fb}})
AsgPromote(k) ==
    /\ resolver[k].pc = "promote"
    /\ assignments' = PromoteById(assignments, resolver[k].id, resolver[k].fb)
    /\ resolver' = [resolver EXCEPT ![k] = IdleResolver]
    /\ UNCHANGED <<asg_call, asg_raced, NotAssign>>

\* count_documents for the next bot of available_bots; after the last one
\* min() has its answer in `best`.
AsgCount(k) ==
    LET me == resolver[k]
        b  == me.avail[me.i]
        best == Better(me.best, b, CountActive(assignments, me.guild, b))
    IN  /\ me.pc = "count"
        /\ resolver' = [resolver EXCEPT ![k] =
               IF me.i = Len(me.avail)
               THEN [me EXCEPT !.pc = "deactivate", !.i = 0, !.best = best]
               ELSE [me EXCEPT !.i = me.i + 1, !.best = best]]
        /\ UNCHANGED <<assignments, asg_call, asg_raced, NotAssign>>

\* update_many({'guild_id', 'user_id'}, {'$set': {'is_active': False}});
\* a rejected update ends the call in the except branch.
AsgSupersede(k) ==
    LET me == resolver[k]
        d  == DeactivateMany(assignments, me.guild, me.user)
    IN  /\ me.pc = "deactivate"
        /\ assignments' = d.rows
        /\ resolver' = [resolver EXCEPT ![k] =
               IF d.ok THEN [me EXCEPT !.pc = "insert"] ELSE IdleResolver]
        /\ UNCHANGED <<asg_call, asg_raced, NotAssign>>

\* insert_one(assignment); a rejected insert ends the call in the except
\* branch.
AsgInsert(k) ==
    LET me == resolver[k] IN
    /\ me.pc = "insert"
    /\ \E fbs \in FallbackChoices(me.avail, me.best.bot) :
          LET ins == InsertOne(assignments, me.guild, me.user, me.best.bot, fbs)
          IN  /\ assignments' = ins.rows
              /\ asg_raced' = (asg_raced \/ ~ins.ok)
    /\ resolver' = [resolver EXCEPT ![k] = IdleResolver]
    /\ UNCHANGED <<asg_call, NotAssign>>

\* reassign_bot_members and _deactivate_member_assignment make one store
\* call each and may run between the steps of a resolve.
AsgReassignConc(old, new, g) ==
    /\ assignments' = ReassignMany(assignments, old, new, g)
    /\ UNCHANGED <<resolver, asg_call, asg_raced, NotAssign>>

AsgDeactivateConc(g, u) ==
    /\ assignments' = DeactivateMany(assignments, g, u).rows
    /\ UNCHANGED <<resolver, asg_call, asg_raced, NotAssign>>

\* The bots that the interleaved calls are offered.
ConcBots == {"b1", "b2"}
ConcAvailLists == DistinctSeqs(ConcBots, Cardinality(ConcBots))

NextAssignConc ==
    \/ \E k \in Resolvers, g \in Guilds, u \in Members, avail \in ConcAvailLists :
          AsgFind(k, g, u, avail)
    \/ \E k \in Resolvers : AsgPromote(k)
    \/ \E k \in Resolvers : AsgCount(k)
    \/ \E k \in Resolvers : AsgSupersede(k)
    \/ \E k \in Resolvers : AsgInsert(k)
    \/ \E old \in ConcBots, new \in ConcBots, g \in Guilds :
          AsgReassignConc(old, new, g)
    \/ \E g \in Guilds, u \in Members : AsgDeactivateConc(g, u)

\* =====================================================================
\* CampaignController and the worker registry
\*   src/controller/campaign_controller.py, src/worker/bot_worker.py,
\*   src/controller/bot_manager.py
\* Campaign ids are 1, 2, ...; NoCampaignId is Python's None in an id field
\* (and the "" that _record_send stores for it).  The rate limiter that
\* send_dm passes through is the subject of SpecLimiter; here its acquire()
\* is taken as returned.
\* =====================================================================
MaxCampaigns == 1
NoCampaignId == 0
FleetBots == {"b1", "b2"}
GuildMembers == {"m1", "m2"}
Modes == {"instant", "paced", "scheduled"}
Terminal == {"sent", "failed"}

\* list(all_users), a set turned into a list: any order of the eligible members
MemberLists == {q \in DistinctSeqs(GuildMembers, Cardinality(GuildMembers)) :
                   q # <<>>}

WithKey(f, k, v) == [x \in DOMAIN f \cup {k} |-> IF x = k THEN v ELSE f[x]]
WithoutKey(f, k) == [x \in DOMAIN f \ {k} |-> f[x]]

\* DiscordBotWorker.__init__
\* message_data of the round in progress: the message message_processor took
\* off the queue and holds while it sleeps out a 429, NoMessage otherwise.
NoMessage == [user_id |-> None, campaign_id |-> NoCampaignId]
\* errors is errors_last_hour; reset_seen says whether health_monitor has
\* set _last_error_reset yet.
NewWorker == [ready |-> FALSE, health |-> "healthy", queue |-> <<>>,
              held |-> NoMessage, errors |-> 0, reset_seen |-> FALSE]

\* get_available_bots_for_guild: the live workers that are ready and healthy
\* or degraded, sorted by queue size (sort is stable, so equal sizes keep
\* the order of active_workers; any order of insertion is possible).
QueueLimit == 100

\* A filter that still takes a worker with a queue of exactly the limit.
UsableAtLimit(w) ==
    /\ w.ready
    /\ w.health \in {"healthy", "degraded"}
    /\ Len(w.queue) <= QueueLimit

Usable(w) ==
    /\ w.ready
    /\ w.health \in {"healthy", "degraded"}
    /\ Len(w.queue) < QueueLimit
SortedByQueue(q, workers) ==
    \A i, j \in DOMAIN q :
        i < j => Len(workers[q[i]].queue) <= Len(workers[q[j]].queue)

\* for bot_id, worker in active_workers.items(): append the usable ones;
\* `order` is the insertion order of the dict
Filtered(order, workers) == SelectSeq(order, LAMBDA b : Usable(workers[b]))

\* available_bots.sort(key=queue_size): a stable sort, here by insertion
\* (b goes behind every entry whose queue is not longer than its own)
RECURSIVE InsertByQueue(_, _, _)
InsertByQueue(q, b, workers) ==
    IF q = <<>> THEN <<b>>
    ELSE IF Len(workers[Head(q)].queue) <= Len(workers[b].queue)
    THEN <<Head(q)>> \o InsertByQueue(Tail(q), b, workers)
    ELSE <<b>> \o q
RECURSIVE SortByQueue(_, _)
SortByQueue(q, workers) ==
    IF q = <<>> THEN <<>>
    ELSE InsertByQueue(SortByQueue(FirstN(q, Len(q) - 1), workers),
                       q[Len(q)], workers)

AvailableBots(order, workers) == SortByQueue(Filtered(order, workers), workers)
AvailableBotLists(workers) ==
    {AvailableBots(order, workers) : order \in Shuffles(DOMAIN workers)}

\* A slip of the index: the distribution starts at the second bot.
AssignedBotShifted(avail, i) == avail[(i % Len(avail)) + 1]

\* _create_campaign_targets: member i goes to available_bots[i % bot_count]
\* (enumerate counts from 0, sequences here from 1)
AssignedBot(avail, i) == avail[((i - 1) % Len(avail)) + 1]
NewTargets(cid, members, avail) ==
    [i \in DOMAIN members |->
        [campaign_id |-> cid, user_id |-> members[i],
         assigned_bot_id |-> AssignedBot(avail, i), status |-> "pending"]]

\* An update that drops the filter and writes the status to every target.
UpdateTargetUnfiltered(tgts, cid, user, s) ==
    [i \in DOMAIN tgts |-> [tgts[i] EXCEPT !.status = s]]

\* update_one({'campaign_id': cid, 'user_id': user}, {'$set': {'status': s}})
UpdateTarget(tgts, cid, user, s) ==
    [i \in DOMAIN tgts |->
        IF tgts[i].campaign_id = cid /\ tgts[i].user_id = user
        THEN [tgts[i] EXCEPT !.status = s] ELSE tgts[i]]

\* find({'campaign_id': cid, 'status': 'pending'}), in insertion order
IsPendingOf(t, cid) == t.campaign_id = cid /\ t.status = "pending"
PendingTargets(tgts, cid) == SelectSeq(tgts, LAMBDA t : IsPendingOf(t, cid))

NoTarget == [campaign_id |-> NoCampaignId, user_id |-> None,
             assigned_bot_id |-> None, status |-> "pending"]

\* The execution task of a campaign: where the coroutine is suspended and
\* its locals (campaign.mode, campaign.id, the cursor, the target in hand,
\* sent_count, failed_count).  `gap` observes the seconds known to have
\* passed since the task last put a message on a queue, counted up to the
\* pacing interval: a sleep that has returned adds its length, and a task
\* that has sent nothing yet has the whole interval behind it.
\* message_interval = 60.0 / campaign.pace, for the default pace
DefaultPace == 10
PaceInterval == 60 \div DefaultPace
NoExec == [pc |-> "none", mode |-> "instant", id |-> NoCampaignId,
           cursor |-> <<>>, cur |-> NoTarget, sent_count |-> 0,
           failed_count |-> 0, gap |-> PaceInterval]

\* await asyncio.sleep(message_interval) has returned
Slept(gap) == Min2(gap + PaceInterval, PaceInterval)

\* A loop that never waits between messages.
SleepsAfterSendNever(mode) == FALSE

\* The paced branch sleeps after each message it sent, the instant branch
\* does not.
SleepsAfterSend(mode) == mode = "paced"

\* What a handler call found and answered: the stored status it met,
\* whether it returned success, and where the registered task stood.
NoCampCall == [op |-> "none", cid |-> NoCampaignId, found |-> None, ok |-> FALSE,
               at |-> None]
Called(op, cid, ok) ==
    [op |-> op, cid |-> cid, found |-> campaigns[cid].status, ok |-> ok,
     at |-> IF cid \in campaign_tasks THEN exec_task[cid].pc ELSE None]

\* A start_campaign call: idle, or suspended in its update_one ("update":
\* not yet applied, "spawn": applied, the call not yet resumed).
StartCallers == 2
Starters == 1..StartCallers
IdleStart == [pc |-> "idle", cid |-> NoCampaignId]

CampInit ==
    /\ campaigns = <<>>
    /\ targets = <<>>
    /\ sends = <<>>
    /\ active_workers = <<>>
    /\ campaign_tasks = {}
    /\ active_campaigns = <<>>
    /\ exec_task = <<>>
    /\ camp_call = NoCampCall
    /\ start_calls = [k \in Starters |-> IdleStart]
    /\ tasks_created = [cid \in 1..MaxCampaigns |-> 0]
    /\ stopped = {}
    /\ bots = <<>>
    /\ bot_health = <<>>
    /\ worker_life = <<>>
    /\ removing = <<>>
    /\ avail_obs = <<>>

\* A fleet already started and ready: every bot has its record, its live
\* worker, a connected client and the health row written by on_ready.
ReadyFleet == [b \in FleetBots |-> [NewWorker EXCEPT !.ready = TRUE]]
CampReadyInit ==
    /\ campaigns = <<>>
    /\ targets = <<>>
    /\ sends = <<>>
    /\ active_workers = ReadyFleet
    /\ campaign_tasks = {}
    /\ active_campaigns = <<>>
    /\ exec_task = <<>>
    /\ camp_call = NoCampCall
    /\ start_calls = [k \in Starters |-> IdleStart]
    /\ tasks_created = [cid \in 1..MaxCampaigns |-> 0]
    /\ stopped = {}
    /\ bots = [b \in FleetBots |-> "active"]
    /\ bot_health = [b \in FleetBots |-> "healthy"]
    /\ worker_life = [b \in FleetBots |-> "connected"]
    /\ removing = <<>>
    /\ avail_obs = <<>>

\* ---- worker registry and workers -------------------------------------
\* The client of a worker: "starting" from create_task(worker.start()) until
\* on_ready or a failure, then "connected" or "failed"; "closing" once a
\* connected client was closed and its disconnect event is still to be
\* handled.  A bot without an entry has no client event outstanding.
LifeAfterStop(life, b) ==
    IF b \in DOMAIN life /\ life[b] = "connected"
    THEN [life EXCEPT ![b] = "closing"]
    ELSE WithoutKey(life, b)

\* start_bot_worker(bot_data), as the loader calls it for every bot record
\* whose status is not error: the worker is registered and worker.start()
\* is left to a background task.
StartWorker(b) ==
    /\ b \in DOMAIN bots
    /\ bots[b] # "error"
    /\ b \notin DOMAIN active_workers
    /\ b \notin DOMAIN worker_life
    /\ b \notin DOMAIN removing
    /\ active_workers' = WithKey(active_workers, b, NewWorker)
    /\ worker_life' = WithKey(worker_life, b, "starting")
    /\ UNCHANGED <<campaigns, targets, sends, campaign_tasks, active_campaigns,
                   exec_task, camp_call, bots, bot_health, removing, avail_obs,
                   NotFleet>>

\* stop_bot_worker(bot_id): worker.stop() closes the client, then the worker
\* leaves the live map
StopWorker(b) ==
    /\ b \in DOMAIN active_workers
    /\ active_workers' = WithoutKey(active_workers, b)
    /\ worker_life' = LifeAfterStop(worker_life, b)
    /\ UNCHANGED <<campaigns, targets, sends, campaign_tasks, active_campaigns,
                   exec_task, camp_call, bots, bot_health, removing, avail_obs,
                   NotFleet>>

\* on_ready: _update_health_status(HEALTHY), message_processor started
WorkerReady(b) ==
    /\ b \in DOMAIN active_workers
    /\ ~active_workers[b].ready
    /\ b \in DOMAIN worker_life /\ worker_life[b] = "starting"
    /\ active_workers' = [active_workers EXCEPT ![b].ready = TRUE,
                                                ![b].health = "healthy"]
    /\ worker_life' = [worker_life EXCEPT ![b] = "connected"]
    /\ bot_health' = WithKey(bot_health, b, "healthy")
    /\ UNCHANGED <<campaigns, targets, sends, campaign_tasks, active_campaigns,
                   exec_task, camp_call, bots, removing, avail_obs, NotFleet>>

\* on_disconnect / on_resumed / health_monitor of a live worker:
\* _update_health_status(h) sets the attribute and upserts the health row
WorkerHealth(b, h) ==
    /\ b \in DOMAIN active_workers
    /\ active_workers[b].ready
    /\ active_workers[b].health # h
    /\ active_workers' = [active_workers EXCEPT ![b].health = h]
    /\ bot_health' = WithKey(bot_health, b, h)
    /\ UNCHANGED <<campaigns, targets, sends, campaign_tasks, active_campaigns,
                   exec_task, camp_call, bots, worker_life, removing, avail_obs,
                   NotFleet>>

\* _record_send(campaign_id, user_id, status): the Send document it builds
Recorded(msg, b, status) ==
    [campaign_id |-> msg.campaign_id, user_id |-> msg.user_id, bot_id |-> b,
     status |-> status]

\* A write that keeps one record per campaign and member: the attempt's
\* record takes the place of an earlier one for the same message.
LoggedUpsert(log, rec) ==
    IF \E i \in DOMAIN log : /\ log[i].campaign_id = rec.campaign_id
                             /\ log[i].user_id = rec.user_id
    THEN [i \in DOMAIN log |->
             IF /\ log[i].campaign_id = rec.campaign_id
                /\ log[i].user_id = rec.user_id
             THEN rec ELSE log[i]]
    ELSE Append(log, rec)

\* sends_collection.insert_one(send_record.dict(exclude={'_id'})); the
\* collection has no unique index, so every insert adds a document.
Logged(log, rec) == Append(log, rec)

\* Discord answers 429 only while the log is shorter than MaxSends, so a
\* message is retried a bounded number of times and is always deliverable.
MaxSends == 2

\* message_processor, one round: take the head of the queue, send_dm it,
\* record the attempt; after a 429 the round keeps the message in hand and
\* sleeps retry_after.  In send_dm every path to a return runs _record_send
\* once: SUCCESS after user.send, FAILED for Forbidden, for any other
\* HTTPException and for whatever reaches the outer except (fetch_user
\* raising NotFound included), RATE_LIMITED for a 429.
SendOutcomes == {"success", "failed", "rate_limited"}

\* How send_dm can end: user.send returned; it raised Forbidden; it raised
\* an HTTPException with status 429; with any other status; anything else
\* was raised, or fetch_user or the limiter raised (the outer except).
SendEndings == {"success", "forbidden", "rate_limited", "http_error",
                "exception"}

\* result['status'] of each ending, which is also the status recorded
StatusOfEnding(ending) ==
    IF ending \in {"success", "rate_limited"} THEN ending ELSE "failed"

\* self.errors_last_hour += 1 stands in the outer except branch only
CountsAsError(ending) == ending = "exception"

\* The counter is followed up to MaxErrors.
MaxErrors == 21

WorkerAttempt(b, ending) ==
    /\ b \in DOMAIN active_workers
    /\ active_workers[b].ready
    /\ active_workers[b].held = NoMessage
    /\ active_workers[b].queue # <<>>
    /\ ending = "rate_limited" => Len(sends) < MaxSends
    /\ CountsAsError(ending) => active_workers[b].errors < MaxErrors
    /\ LET msg == Head(active_workers[b].queue)
           rest == Tail(active_workers[b].queue)
       IN  /\ sends' = Logged(sends, Recorded(msg, b, StatusOfEnding(ending)))
           /\ active_workers' = [active_workers EXCEPT ![b] =
                  [@ EXCEPT !.queue = rest,
                            !.held = IF ending = "rate_limited"
                                     THEN msg ELSE NoMessage,
                            !.errors = IF CountsAsError(ending)
                                       THEN @ + 1 ELSE @]]
    /\ UNCHANGED <<campaigns, targets, campaign_tasks, active_campaigns,
                   exec_task, camp_call, NotCampaign>>

\* A round of message_processor whose send_dm answered with `outcome`
WorkerProcess(b, outcome) ==
    \E ending \in SendEndings :
        /\ StatusOfEnding(ending) = outcome
        /\ WorkerAttempt(b, ending)

\* A retry that goes to the front of the queue instead of its end.
RequeuedAtHead(q, msg) == <<msg>> \o q

\* message_queue.put(message_data): the message goes to the end of the
\* queue as it is now.
Requeued(q, msg) == Append(q, msg)

\* message_processor after a 429: asyncio.sleep(retry_after) is over and
\* the message in hand is put back on the worker's own queue.
WorkerRequeue(b) ==
    /\ b \in DOMAIN active_workers
    /\ active_workers[b].held # NoMessage
    /\ active_workers' = [active_workers EXCEPT ![b] =
           [@ EXCEPT !.queue = Requeued(active_workers[b].queue,
                                        active_workers[b].held),
                     !.held = NoMessage]]
    /\ UNCHANGED <<campaigns, targets, sends, campaign_tasks,
                   active_campaigns, exec_task, camp_call, NotCampaign>>

\* ---- BotManager ----------------------------------------------------------
\* add_bot with a valid, unregistered token: the bot record is inserted,
\* start_bot_worker registers the worker and leaves worker.start() to a
\* background task, and the record's status is set to active.  The except
\* branch that would write status error is reached only if start_bot_worker
\* itself raises, which it does not on a decrypt or connection failure.
\* Bot ids are never reused.
AddBot(b) ==
    /\ b \notin DOMAIN bots
    /\ b \notin DOMAIN removing
    /\ b \notin DOMAIN active_workers
    /\ b \notin DOMAIN worker_life
    /\ bots' = WithKey(bots, b, "active")
    /\ active_workers' = WithKey(active_workers, b, NewWorker)
    /\ worker_life' = WithKey(worker_life, b, "starting")
    /\ UNCHANGED <<campaigns, targets, sends, campaign_tasks, active_campaigns,
                   exec_task, camp_call, bot_health, removing, avail_obs,
                   NotFleet>>

\* worker.start() in its background task: decrypt_bot_token or client.start
\* raises; the except branch runs _update_health_status(UNHEALTHY) and
\* re-raises into the task, which nobody awaits.  The worker stays in the
\* live map.
WorkerStartFails(b) ==
    /\ b \in DOMAIN worker_life /\ worker_life[b] = "starting"
    /\ b \in DOMAIN active_workers
    /\ active_workers' = [active_workers EXCEPT ![b].health = "unhealthy"]
    /\ bot_health' = WithKey(bot_health, b, "unhealthy")
    /\ worker_life' = [worker_life EXCEPT ![b] = "failed"]
    /\ UNCHANGED <<campaigns, targets, sends, campaign_tasks, active_campaigns,
                   exec_task, camp_call, bots, removing, avail_obs, NotFleet>>

\* on_disconnect of a client that was closed by worker.stop(): the callback
\* runs as its own task and upserts the health row, whether or not the
\* worker is still in the live map.
WorkerDisconnected(b) ==
    /\ b \in DOMAIN worker_life /\ worker_life[b] = "closing"
    /\ bot_health' = WithKey(bot_health, b, "unhealthy")
    /\ worker_life' = WithoutKey(worker_life, b)
    /\ UNCHANGED <<campaigns, targets, sends, active_workers, campaign_tasks,
                   active_campaigns, exec_task, camp_call, bots, removing,
                   avail_obs, NotFleet>>

\* remove_bot, from one await to the next: find_one found the record and
\* stop_bot_worker has returned; ...
RemoveBotStop(b) ==
    /\ b \in DOMAIN bots
    /\ b \notin DOMAIN removing
    /\ active_workers' = WithoutKey(active_workers, b)
    /\ worker_life' = LifeAfterStop(worker_life, b)
    /\ removing' = WithKey(removing, b, "delete_bot")
    /\ UNCHANGED <<campaigns, targets, sends, campaign_tasks, active_campaigns,
                   exec_task, camp_call, bots, bot_health, avail_obs, NotFleet>>

\* ... bots_collection.delete_one({'_id': bot_id}) has returned; ...
RemoveBotDelete(b) ==
    /\ b \in DOMAIN removing /\ removing[b] = "delete_bot"
    /\ bots' = WithoutKey(bots, b)
    /\ removing' = [removing EXCEPT ![b] = "delete_health"]
    /\ UNCHANGED <<campVars, bot_health, worker_life, avail_obs, NotFleet>>

\* ... health_collection.delete_one({'bot_id': bot_id}) has returned and the
\* call answers success.
RemoveBotHealth(b) ==
    /\ b \in DOMAIN removing /\ removing[b] = "delete_health"
    /\ bot_health' = WithoutKey(bot_health, b)
    /\ removing' = [removing EXCEPT ![b] = "done"]
    /\ UNCHANGED <<campVars, bots, worker_life, avail_obs, NotFleet>>

\* get_available_bots_for_guild(guild_id): get_status does not suspend, so
\* the whole scan sees one state of the live map
GetAvailableBots(order) ==
    /\ order \in Shuffles(DOMAIN active_workers)
    /\ avail_obs' = AvailableBots(order, active_workers)
    /\ UNCHANGED <<campVars, bots, bot_health, worker_life, removing, NotFleet>>

HealthValues == {"healthy", "degraded", "unhealthy"}

\* The fleet as its operators and the gateway drive it.
NextFleet ==
    \/ \E b \in FleetBots : AddBot(b)
    \/ \E b \in FleetBots : StartWorker(b)
    \/ \E b \in FleetBots : WorkerStartFails(b)
    \/ \E b \in FleetBots : WorkerReady(b)
    \/ \E b \in FleetBots, h \in HealthValues : WorkerHealth(b, h)
    \/ \E b \in FleetBots : StopWorker(b)
    \/ \E b \in FleetBots : WorkerDisconnected(b)
    \/ \E b \in FleetBots : RemoveBotStop(b)
    \/ \E b \in FleetBots : RemoveBotDelete(b)
    \/ \E b \in FleetBots : RemoveBotHealth(b)
    \/ \E order \in Shuffles(DOMAIN active_workers) : GetAvailableBots(order)

\* Fleets as get_available_bots_for_guild can meet them: up to three live
\* workers, ready or not, of any health, with queues empty, just under the
\* overload limit and at it.
QueueDepths == {0, QueueLimit - 1, QueueLimit}
Backlog(n) == [i \in 1..n |-> [user_id |-> "m1", campaign_id |-> NoCampaignId]]
WorkerViews ==
    [ready : BOOLEAN, health : HealthValues,
     queue : {Backlog(n) : n \in QueueDepths}, held : {NoMessage},
     errors : {0}, reset_seen : {FALSE}]
FleetViews == UNION {[S -> WorkerViews] : S \in SUBSET Bots}
LifeOf(w) ==
    IF w.ready THEN "connected"
    ELSE IF w.health = "unhealthy" THEN "failed" ELSE "starting"
FleetViewInit ==
    /\ campaigns = <<>>
    /\ targets = <<>>
    /\ sends = <<>>
    /\ active_workers \in FleetViews
    /\ campaign_tasks = {}
    /\ active_campaigns = <<>>
    /\ exec_task = <<>>
    /\ camp_call = NoCampCall
    /\ start_calls = [k \in Starters |-> IdleStart]
    /\ tasks_created = [cid \in 1..MaxCampaigns |-> 0]
    /\ stopped = {}
    /\ bots = [b \in DOMAIN active_workers |-> "active"]
    /\ bot_health =
           [b \in {x \in DOMAIN active_workers :
                      active_workers[x].ready
                      \/ active_workers[x].health # "healthy"} |->
               active_workers[b].health]
    /\ worker_life = [b \in DOMAIN active_workers |-> LifeOf(active_workers[b])]
    /\ removing = <<>>
    /\ avail_obs = <<>>

NextFleetView ==
    \/ \E order \in Shuffles(DOMAIN active_workers) : GetAvailableBots(order)
    \/ \E b \in Bots, h \in HealthValues : WorkerHealth(b, h)
    \/ \E b \in Bots : StopWorker(b)

\* ---- campaign operations ----------------------------------------------

\* create_campaign for a registered guild: the campaign document is inserted
\* by campaign.dict() before campaign.id is assigned, so its 'id' field is
\* stored as None; then one pending target per member.  With no eligible
\* member or no available bot it returns an error and changes nothing.
CreateCampaign(mode, members, avail) ==
    LET cid == Len(campaigns) + 1 IN
    /\ Len(campaigns) < MaxCampaigns
    /\ avail # <<>>
    /\ campaigns' = Append(campaigns,
           [id |-> NoCampaignId, mode |-> mode, status |-> "pending",
            total_targets |-> Len(members), completed_targets |-> 0,
            failed_targets |-> 0])
    /\ targets' = targets \o NewTargets(cid, members, avail)
    /\ active_campaigns' = WithKey(active_campaigns, cid, "pending")
    /\ UNCHANGED <<sends, active_workers, campaign_tasks, exec_task,
                   camp_call, NotCampaign>>

\* Guilds of one to three eligible members, met by fleets of one to three
\* workers that are all ready, healthy and idle.
CreateMembers == {"m1", "m2", "m3"}
CreateMemberLists ==
    {q \in DistinctSeqs(CreateMembers, Cardinality(CreateMembers)) : q # <<>>}
ReadyFleets ==
    {[b \in S |-> [NewWorker EXCEPT !.ready = TRUE]] : S \in SUBSET Bots \ {{}}}
CreateInit ==
    /\ campaigns = <<>>
    /\ targets = <<>>
    /\ sends = <<>>
    /\ active_workers \in ReadyFleets
    /\ campaign_tasks = {}
    /\ active_campaigns = <<>>
    /\ exec_task = <<>>
    /\ camp_call = NoCampCall
    /\ start_calls = [k \in Starters |-> IdleStart]
    /\ tasks_created = [cid \in 1..MaxCampaigns |-> 0]
    /\ stopped = {}
    /\ bots = [b \in DOMAIN active_workers |-> "active"]
    /\ bot_health = [b \in DOMAIN active_workers |-> "healthy"]
    /\ worker_life = [b \in DOMAIN active_workers |-> "connected"]
    /\ removing = <<>>
    /\ avail_obs = <<>>

NextCreate ==
    \E mode \in Modes, members \in CreateMemberLists,
       avail \in AvailableBotLists(active_workers) :
       CreateCampaign(mode, members, avail)

\* A guard that lets a paused campaign start as well.
StartAllowedAlsoPaused(status) == status \in {"pending", "paused"}

\* if campaign.status != CampaignStatus.PENDING: return {'success': False}
StartAllowed(status) == status = "pending"

\* start_campaign: only a pending campaign starts, any other status is
\* answered with an error before anything is written; `late` says whether
\* a scheduled campaign's start_at is still ahead (delay > 0).
StartCampaign(cid, late) ==
    /\ cid \in DOMAIN campaigns
    /\ camp_call' = Called("start", cid, StartAllowed(campaigns[cid].status))
    /\ IF StartAllowed(campaigns[cid].status)
       THEN /\ campaigns' = [campaigns EXCEPT ![cid].status = "running"]
            /\ exec_task' = WithKey(exec_task, cid,
                   [NoExec EXCEPT !.pc =
                       IF campaigns[cid].mode = "scheduled" /\ late
                       THEN "delay" ELSE "load"])
            /\ campaign_tasks' = campaign_tasks \cup {cid}
            /\ active_campaigns' = WithKey(active_campaigns, cid, "running")
            /\ tasks_created' = [tasks_created EXCEPT ![cid] = @ + 1]
       ELSE UNCHANGED <<campaigns, exec_task, campaign_tasks, active_campaigns,
                        tasks_created>>
    /\ UNCHANGED <<targets, sends, active_workers, start_calls, stopped,
                   NotStart>>

\* start_campaign, from one await to the next.  find_one returns and the
\* status check runs: any status but pending is answered with an error;
\* a pending campaign goes on to await its update_one.
StartFind(k, cid) ==
    /\ start_calls[k].pc = "idle"
    /\ cid \in DOMAIN campaigns
    /\ IF StartAllowed(campaigns[cid].status)
       THEN /\ start_calls' = [start_calls EXCEPT ![k] = [pc |-> "update", cid |-> cid]]
            /\ UNCHANGED camp_call
       ELSE /\ camp_call' = Called("start", cid, FALSE)
            /\ UNCHANGED start_calls
    /\ UNCHANGED <<campaigns, targets, sends, active_workers, campaign_tasks,
                   active_campaigns, exec_task, tasks_created, stopped,
                   NotStart>>

\* update_one({'_id': campaign_id}, status running) is applied; it has no
\* condition on the stored status.
StartUpdate(k) ==
    /\ start_calls[k].pc = "update"
    /\ campaigns' = [campaigns EXCEPT ![start_calls[k].cid].status = "running"]
    /\ start_calls' = [start_calls EXCEPT ![k].pc = "spawn"]
    /\ UNCHANGED <<targets, sends, active_workers, campaign_tasks,
                   active_campaigns, exec_task, camp_call, tasks_created,
                   stopped, NotStart>>

\* The call resumes: create_task, self.campaign_tasks[campaign_id] = task
\* (an earlier task of the campaign loses its registry entry and runs on
\* unobserved), and success is returned.
StartSpawn(k, late) ==
    /\ start_calls[k].pc = "spawn"
    /\ LET cid == start_calls[k].cid IN
       /\ exec_task' = WithKey(exec_task, cid,
              [NoExec EXCEPT !.pc =
                  IF campaigns[cid].mode = "scheduled" /\ late
                  THEN "delay" ELSE "load"])
       /\ campaign_tasks' = campaign_tasks \cup {cid}
       /\ active_campaigns' = WithKey(active_campaigns, cid, "running")
       /\ tasks_created' = [tasks_created EXCEPT ![cid] = @ + 1]
       /\ camp_call' = [Called("start", cid, TRUE) EXCEPT !.found = "pending"]
    /\ start_calls' = [start_calls EXCEPT ![k] = IdleStart]
    /\ UNCHANGED <<campaigns, targets, sends, active_workers, stopped,
                   NotStart>>

\* task.cancel(): CancelledError is raised where the task is suspended.  In
\* the paced loop body it is caught and the loop is left (break), so the
\* task goes on to the final update_one; anywhere else the task ends.
InPacedBody(t) ==
    t.mode = "paced" /\ t.pc \in {"mark_sent", "mark_failed", "pace_sleep"}
Cancelled(t) ==
    IF InPacedBody(t) THEN [t EXCEPT !.pc = "finish", !.cur = NoTarget]
    ELSE [t EXCEPT !.pc = "done", !.cur = NoTarget, !.cursor = <<>>]

\* The update_one a task was awaiting when it was cancelled has been sent
\* or not.
InFlightTarget(t, tgts, landed) ==
    IF ~landed THEN tgts
    ELSE IF t.pc = "mark_sent" THEN UpdateTarget(tgts, t.id, t.cur.user_id, "sent")
    ELSE IF t.pc = "mark_failed"
    THEN UpdateTarget(tgts, t.id, t.cur.user_id, "failed")
    ELSE tgts

Completed(c, t) == [c EXCEPT !.status = "completed",
                             !.completed_targets = t.sent_count,
                             !.failed_targets = t.failed_count]

\* The campaign document after the handler's own status write and, when the
\* cancelled task was awaiting its final update_one, that write too: not
\* sent, applied before the handler's, or applied after it.
InFlightCampaign(c, t, status, landed) ==
    IF t.pc # "finish" \/ landed = "no" THEN [c EXCEPT !.status = status]
    ELSE IF landed = "before" THEN [Completed(c, t) EXCEPT !.status = status]
    ELSE Completed(c, t)

StopTask(cid, status, landed) ==
    IF cid \in campaign_tasks
    THEN LET t == exec_task[cid] IN
         /\ exec_task' = [exec_task EXCEPT ![cid] = Cancelled(t)]
         /\ targets' = InFlightTarget(t, targets, landed # "no")
         /\ campaigns' = [campaigns EXCEPT
                             ![cid] = InFlightCampaign(@, t, status, landed)]
    ELSE /\ landed = "no"
         /\ campaigns' = [campaigns EXCEPT ![cid].status = status]
         /\ UNCHANGED <<exec_task, targets>>

\* pause_campaign: update_one filtered on status running; when nothing
\* matched it returns an error, else the task is cancelled and unregistered.
PauseCampaign(cid, landed) ==
    /\ cid \in DOMAIN campaigns
    /\ camp_call' = Called("pause", cid, campaigns[cid].status = "running")
    /\ IF campaigns[cid].status = "running"
       THEN /\ StopTask(cid, "paused", landed)
            /\ campaign_tasks' = campaign_tasks \ {cid}
            /\ active_campaigns' =
                   IF cid \in DOMAIN active_campaigns
                   THEN [active_campaigns EXCEPT ![cid] = "paused"]
                   ELSE active_campaigns
            /\ stopped' = stopped \cup {cid}
       ELSE /\ landed = "no"
            /\ UNCHANGED <<campaigns, targets, exec_task, campaign_tasks,
                           active_campaigns, stopped>>
    /\ UNCHANGED <<sends, active_workers, start_calls, tasks_created,
                   NotStart>>

\* cancel_campaign: update_one on the id alone, whatever the status
CancelCampaign(cid, landed) ==
    /\ cid \in DOMAIN campaigns
    /\ camp_call' = Called("cancel", cid, TRUE)
    /\ StopTask(cid, "cancelled", landed)
    /\ campaign_tasks' = campaign_tasks \ {cid}
    /\ active_campaigns' = WithoutKey(active_campaigns, cid)
    /\ stopped' = stopped \cup {cid}
    /\ UNCHANGED <<sends, active_workers, start_calls, tasks_created,
                   NotStart>>

\* ---- the execution task, from one suspension to the next ----------------
\* A queue that takes a new message at its front.
EnqueuedAtHead(q, msg) == <<msg>> \o q

\* queue_message: message_queue.put(message_data) on an unbounded queue
Enqueued(q, msg) == Append(q, msg)

\* queue_message: the message carries campaign.id
Message(t, d) == [user_id |-> d.user_id, campaign_id |-> t.id]

\* The loop takes the next target and runs _send_campaign_message up to its
\* update_one: get_bot_worker and queue_message do not suspend.  A missing
\* worker raises, and the except branch awaits the 'failed' update.
NextIteration(t, workers) ==
    IF t.cursor = <<>>
    THEN [task |-> [t EXCEPT !.pc = "finish", !.cur = NoTarget],
          workers |-> workers]
    ELSE LET d == Head(t.cursor)
             b == d.assigned_bot_id
             took == [t EXCEPT !.cur = d, !.cursor = Tail(t.cursor)]
         IN  IF b \in DOMAIN workers
             THEN [task |-> [took EXCEPT !.pc = "mark_sent", !.gap = 0],
                   workers |-> [workers EXCEPT
                                   ![b].queue = Enqueued(@, Message(t, d))]]
             ELSE [task |-> [took EXCEPT !.pc = "mark_failed"],
                   workers |-> workers]

\* A slip: a task takes any of its steps wherever it is suspended.
SuspendedAnywhere(cid, pc) == cid \in DOMAIN exec_task

Suspended(cid, pc) == cid \in DOMAIN exec_task /\ exec_task[cid].pc = pc

\* _schedule_campaign: asyncio.sleep(delay) is over
TaskDelayOver(cid) ==
    /\ Suspended(cid, "delay")
    /\ exec_task' = [exec_task EXCEPT ![cid].pc = "load"]
    /\ UNCHANGED <<campaigns, targets, sends, active_workers, campaign_tasks,
                   active_campaigns, camp_call, NotCampaign>>

\* find_one({'_id': campaign_id}); campaign = Campaign(**campaign_doc).
\* Only the instant and paced branches iterate the cursor.
TaskLoad(cid) ==
    /\ Suspended(cid, "load")
    /\ exec_task' = [exec_task EXCEPT ![cid] =
           [@ EXCEPT !.mode = campaigns[cid].mode,
                     !.id = campaigns[cid].id,
                     !.pc = IF campaigns[cid].mode = "scheduled"
                            THEN "finish" ELSE "fetch"]]
    /\ UNCHANGED <<campaigns, targets, sends, active_workers, campaign_tasks,
                   active_campaigns, camp_call, NotCampaign>>

\* The cursor's first batch arrives: the pending targets of campaign_id.
TaskFetch(cid) ==
    /\ Suspended(cid, "fetch")
    /\ LET n == NextIteration([exec_task[cid] EXCEPT
                                  !.cursor = PendingTargets(targets, cid)],
                              active_workers)
       IN  /\ exec_task' = [exec_task EXCEPT ![cid] = n.task]
           /\ active_workers' = n.workers
    /\ UNCHANGED <<campaigns, targets, sends, campaign_tasks, active_campaigns,
                   camp_call, NotCampaign>>

\* update_one({'campaign_id': campaign.id, 'user_id'}, status sent) returns:
\* sent_count += 1; the paced loop sleeps, the instant loop goes on.
TaskMarkSent(cid) ==
    /\ Suspended(cid, "mark_sent")
    /\ LET t == exec_task[cid]
           counted == [t EXCEPT !.sent_count = @ + 1, !.cur = NoTarget]
           n == IF SleepsAfterSend(t.mode)
                THEN [task |-> [counted EXCEPT !.pc = "pace_sleep"],
                      workers |-> active_workers]
                ELSE NextIteration(counted, active_workers)
       IN  /\ targets' = UpdateTarget(targets, t.id, t.cur.user_id, "sent")
           /\ exec_task' = [exec_task EXCEPT ![cid] = n.task]
           /\ active_workers' = n.workers
    /\ UNCHANGED <<campaigns, sends, campaign_tasks, active_campaigns,
                   camp_call, NotCampaign>>

\* update_one(..., status failed) returns and the exception is re-raised:
\* failed_count += 1 and the loop goes on without sleeping.
TaskMarkFailed(cid) ==
    /\ Suspended(cid, "mark_failed")
    /\ LET t == exec_task[cid]
           n == NextIteration([t EXCEPT !.failed_count = @ + 1,
                                        !.cur = NoTarget], active_workers)
       IN  /\ targets' = UpdateTarget(targets, t.id, t.cur.user_id, "failed")
           /\ exec_task' = [exec_task EXCEPT ![cid] = n.task]
           /\ active_workers' = n.workers
    /\ UNCHANGED <<campaigns, sends, campaign_tasks, active_campaigns,
                   camp_call, NotCampaign>>

\* asyncio.sleep(message_interval) is over
TaskPaceOver(cid) ==
    /\ Suspended(cid, "pace_sleep")
    /\ LET n == NextIteration([exec_task[cid] EXCEPT !.gap = Slept(@)],
                              active_workers)
       IN  /\ exec_task' = [exec_task EXCEPT ![cid] = n.task]
           /\ active_workers' = n.workers
    /\ UNCHANGED <<campaigns, targets, sends, campaign_tasks, active_campaigns,
                   camp_call, NotCampaign>>

\* The final update_one returns: status completed with the two counters,
\* then the registries are cleaned up.
TaskFinish(cid) ==
    /\ Suspended(cid, "finish")
    /\ campaigns' = [campaigns EXCEPT ![cid] = Completed(@, exec_task[cid])]
    /\ exec_task' = [exec_task EXCEPT ![cid].pc = "done"]
    /\ campaign_tasks' = campaign_tasks \ {cid}
    /\ active_campaigns' = WithoutKey(active_campaigns, cid)
    /\ UNCHANGED <<targets, sends, active_workers, camp_call, NotCampaign>>

CampaignIds == 1..MaxCampaigns
Landings == {"no", "before", "after"}

\* The steps of a run that nobody interrupts and whose workers stay up.
NextCampaignRun ==
    \/ \E mode \in Modes, members \in MemberLists,
          avail \in AvailableBotLists(active_workers) :
          CreateCampaign(mode, members, avail)
    \/ \E cid \in CampaignIds, late \in BOOLEAN : StartCampaign(cid, late)
    \/ \E cid \in CampaignIds : TaskDelayOver(cid)
    \/ \E cid \in CampaignIds : TaskLoad(cid)
    \/ \E cid \in CampaignIds : TaskFetch(cid)
    \/ \E cid \in CampaignIds : TaskMarkSent(cid)
    \/ \E cid \in CampaignIds : TaskPaceOver(cid)
    \/ \E cid \in CampaignIds : TaskFinish(cid)
    \/ \E b \in FleetBots, o \in SendOutcomes : WorkerProcess(b, o)
    \/ \E b \in FleetBots : WorkerRequeue(b)

\* The campaign engine as its operators drive it: runs that are paused or
\* cancelled, and workers that leave the live map while targets are still
\* assigned to them.  How workers come up and report health is the subject
\* of the fleet specification.
NextCampaign ==
    \/ NextCampaignRun
    \/ \E cid \in CampaignIds : TaskMarkFailed(cid)
    \/ \E cid \in CampaignIds, landed \in Landings : PauseCampaign(cid, landed)
    \/ \E cid \in CampaignIds, landed \in Landings : CancelCampaign(cid, landed)
    \/ \E b \in FleetBots : StopWorker(b)

\* Overlapping handler calls: start_campaign runs in steps, next to pause,
\* cancel and the execution task.
NextStartRace ==
    \/ \E mode \in Modes, members \in MemberLists,
          avail \in AvailableBotLists(active_workers) :
          CreateCampaign(mode, members, avail)
    \/ \E k \in Starters, cid \in CampaignIds : StartFind(k, cid)
    \/ \E k \in Starters : StartUpdate(k)
    \/ \E k \in Starters, late \in BOOLEAN : StartSpawn(k, late)
    \/ \E cid \in CampaignIds, landed \in Landings : PauseCampaign(cid, landed)
    \/ \E cid \in CampaignIds, landed \in Landings : CancelCampaign(cid, landed)
    \/ \E cid \in CampaignIds : TaskDelayOver(cid)
    \/ \E cid \in CampaignIds : TaskLoad(cid)
    \/ \E cid \in CampaignIds : TaskFetch(cid)
    \/ \E cid \in CampaignIds : TaskMarkSent(cid)
    \/ \E cid \in CampaignIds : TaskPaceOver(cid)
    \/ \E cid \in CampaignIds : TaskFinish(cid)

\* =====================================================================
\* Specifications
\* =====================================================================
PacerInit == PacerStart(1..MaxPace)
PacerRest == PacerStart({1})
LimInit == LimStart({FreshBucket})
LimFullInit == LimStart(FullBuckets)

\* The campaign pacer alone.
InitPacer == PacerInit /\ LimInit /\ AsgInit /\ CampInit
SpecPacer == InitPacer /\ [][NextPacer]_vars

\* The event loop runs every ready task and the clock never stops.
FairSpecPacer ==
    /\ SpecPacer
    /\ WF_vars(PacerTick)
    /\ \A c \in PCallers : WF_vars(PacerWake(c))

\* One bot's limiter under concurrent callers and arriving responses.
InitLimiter == PacerRest /\ LimInit /\ AsgInit /\ CampInit
SpecLimiter == InitLimiter /\ [][NextLimiter]_vars

\* One bot's limiter, a bucket prepared with remaining = limit = N.
InitLimiterFull == PacerRest /\ LimFullInit /\ AsgInit /\ CampInit
SpecLimiterFull == InitLimiterFull /\ [][NextLimiterQuiet]_vars

\* The assignment store, its operations run one at a time.
InitAssign == PacerRest /\ LimInit /\ AsgInit /\ CampInit
SpecAssign == InitAssign /\ [][NextAssign]_vars
SpecAssignConc == InitAssign /\ [][NextAssignConc]_vars

\* The assignment store when any store call of a resolve may raise.
SpecAssignFaulty == InitAssign /\ [][NextAssignFaulty]_vars

\* Bulk reassignment on stores of several guilds.
InitBalance == PacerRest /\ LimInit /\ AsgLoadedInit /\ CampInit
SpecBalance == InitBalance /\ [][NextBalance]_vars
SpecPool == InitAssign /\ [][NextPool]_vars
InitReassign == PacerRest /\ LimInit /\ AsgStoresInit /\ CampInit
SpecReassign == InitReassign /\ [][NextReassign]_vars

\* Campaigns and their execution tasks on a fleet that starts ready, with
\* pause, cancel and workers leaving.
InitCampaign == PacerRest /\ LimInit /\ AsgInit /\ CampReadyInit
SpecCampaign == InitCampaign /\ [][NextCampaign]_vars

\* ---- health_monitor ----------------------------------------------------
DegradedAt == 10
UnhealthyAt == 20

\* Thresholds that are exceeded only above the limit.
GradeAbove(errors) ==
    IF errors > UnhealthyAt THEN "unhealthy"
    ELSE IF errors > DegradedAt THEN "degraded"
    ELSE "healthy"

\* if errors_last_hour >= 20: UNHEALTHY; elif >= 10: DEGRADED; else HEALTHY
Grade(errors) ==
    IF errors >= UnhealthyAt THEN "unhealthy"
    ELSE IF errors >= DegradedAt THEN "degraded"
    ELSE "healthy"

\* One run of the health loop of a live worker; `due` says whether an hour
\* has passed since _last_error_reset (the first run always resets).  A
\* ready client has its counter reset when due and is graded on the
\* counter; a client that is not ready is reported unhealthy.
\* _update_health_status sets the attribute and upserts the health row.
HealthMonitor(b, due) ==
    /\ b \in DOMAIN active_workers
    /\ LET w == active_workers[b]
           reset == due \/ ~w.reset_seen
           count == IF reset THEN 0 ELSE w.errors
       IN  IF w.ready
           THEN /\ active_workers' = [active_workers EXCEPT ![b] =
                       [w EXCEPT !.errors = count,
                                 !.reset_seen = TRUE,
                                 !.health = Grade(count)]]
                /\ bot_health' = WithKey(bot_health, b, Grade(count))
           ELSE /\ active_workers' =
                       [active_workers EXCEPT ![b].health = "unhealthy"]
                /\ bot_health' = WithKey(bot_health, b, "unhealthy")
    /\ UNCHANGED <<campaigns, targets, sends, campaign_tasks, active_campaigns,
                   exec_task, camp_call, bots, worker_life, removing, avail_obs,
                   NotFleet>>

\* One worker as the health loop can meet it: connected or not, still with
\* the health it was constructed with, a counter below, at and between the
\* thresholds, its first reset behind it or not, and up to two messages
\* waiting.
HealthBots == {"b1"}
ErrorLevels == {0, DegradedAt - 1, DegradedAt, UnhealthyAt - 1, UnhealthyAt}
TwoMessages == <<[user_id |-> "m1", campaign_id |-> NoCampaignId],
                 [user_id |-> "m2", campaign_id |-> NoCampaignId]>>
HealthViews ==
    [ready : BOOLEAN, health : {"healthy"},
     queue : {SubSeq(TwoMessages, 1, n) : n \in 0..2}, held : {NoMessage},
     errors : ErrorLevels, reset_seen : BOOLEAN]
HealthInit ==
    /\ campaigns = <<>>
    /\ targets = <<>>
    /\ sends = <<>>
    /\ active_workers \in [HealthBots -> HealthViews]
    /\ campaign_tasks = {}
    /\ active_campaigns = <<>>
    /\ exec_task = <<>>
    /\ camp_call = NoCampCall
    /\ start_calls = [k \in Starters |-> IdleStart]
    /\ tasks_created = [cid \in 1..MaxCampaigns |-> 0]
    /\ stopped = {}
    /\ bots = [b \in HealthBots |-> "active"]
    /\ bot_health = [b \in HealthBots |-> active_workers[b].health]
    /\ worker_life = [b \in HealthBots |-> LifeOf(active_workers[b])]
    /\ removing = <<>>
    /\ avail_obs = <<>>

NextHealth ==
    \/ \E b \in HealthBots, ending \in SendEndings : WorkerAttempt(b, ending)
    \/ \E b \in HealthBots : WorkerRequeue(b)
    \/ \E b \in HealthBots, due \in BOOLEAN : HealthMonitor(b, due)

\* The bot fleet from an empty registry, and the fleets a scan can meet.
InitFleet == PacerRest /\ LimInit /\ AsgInit /\ CampInit
SpecFleet == InitFleet /\ [][NextFleet]_vars
InitFleetView == PacerRest /\ LimInit /\ AsgInit /\ FleetViewInit
SpecFleetView == InitFleetView /\ [][NextFleetView]_vars

\* One worker, its message rounds and its health loop.
InitHealth == PacerRest /\ LimInit /\ AsgInit /\ HealthInit
SpecHealth == InitHealth /\ [][NextHealth]_vars

\* create_campaign on fleets of one to three ready workers.
InitCreate == PacerRest /\ LimInit /\ AsgInit /\ CreateInit
SpecCreate == InitCreate /\ [][NextCreate]_vars

\* An uninterrupted run on a ready fleet: every suspended task is resumed
\* and every queued message is eventually delivered.
\* Overlapping start, pause and cancel calls on a ready fleet.
SpecStartRace == InitCampaign /\ [][NextStartRace]_vars

InitCampaignRun == PacerRest /\ LimInit /\ AsgInit /\ CampReadyInit
FairSpecCampaignRun ==
    /\ InitCampaignRun
    /\ [][NextCampaignRun]_vars
    /\ \A cid \in CampaignIds :
          /\ WF_vars(TaskDelayOver(cid))
          /\ WF_vars(TaskLoad(cid))
          /\ WF_vars(TaskFetch(cid))
          /\ WF_vars(TaskMarkSent(cid))
          /\ WF_vars(TaskPaceOver(cid))
          /\ WF_vars(TaskFinish(cid))
    /\ \A b \in FleetBots : /\ WF_vars(WorkerProcess(b, "success"))
                             /\ WF_vars(WorkerRequeue(b))

\* ---------------------------------------------------------------------
\* Claims about CampaignRateLimiter
\* ---------------------------------------------------------------------
GrantsInWindow == {j \in DOMAIN grant_log : grant_log[j].age < Window}

\* C3: every acquire() call eventually returns: a caller that found the
\* window full is granted a slot once the oldest grant has aged out.
PacerAcquireReturns ==
    \A c \in PCallers : (ppc[c] # "idle") ~> (ppc[c] = "idle")

\* C4: the grants whose grant time lies in the trailing 60-second span
\* (t - 60, t] ending at any grant never number more than the limit that
\* was in force at that grant. (grant_log keeps two windows of history, so
\* the span of every grant younger than one window is complete.)
PacerWindowBound ==
    \A i \in DOMAIN grant_log :
        grant_log[i].age < Window =>
            Cardinality({j \in 1..i :
                grant_log[j].age < grant_log[i].age + Window})
              <= grant_log[i].limit

\* C4 witness: the window holds as many grants as the limit allows (two or
\* more), a further caller was refused and sleeps, another queues on the lock.
PacerWindowFullWitness ==
    /\ messages_per_minute >= 2
    /\ Cardinality(GrantsInWindow) = messages_per_minute
    /\ \E c \in PCallers : ppc[c] = "sleeping"
    /\ \E c \in PCallers : ppc[c] = "lockwait"

\* ---------------------------------------------------------------------
\* Claims about DiscordRateLimiter
\* ---------------------------------------------------------------------
\* C5: on a bucket holding remaining = N, limit = N and a reset time in the
\* future, each of the first N acquire() calls returns without having slept,
\* and the (N+1)th does not return before the bucket's reset time.
LimFullBucketGrants ==
    (lim_event.kind = "return" /\ lim_event.nth > 0) =>
        /\ lim_event.nth <= lim_epoch.n => ~lim_event.slept
        /\ lim_event.nth = lim_epoch.n + 1 => lim_event.reset_left = 0

\* C5 witness: with N >= 2, the (N+1)th call slept on the exhausted bucket
\* and has returned.
LimFullBucketWitness ==
    /\ lim_epoch.n >= 2
    /\ lim_event.kind = "return"
    /\ lim_event.nth = lim_epoch.n + 1
    /\ lim_event.slept

\* C6: once a global 429 with retry_after = r has been recorded at time t,
\* no acquire() on any bucket returns before t + r.
LimNoReturnInCooldown ==
    lim_event.kind = "return" => lim_event.cooldown = 0

\* ---------------------------------------------------------------------
\* Claims about MemberAssignmentManager
\* ---------------------------------------------------------------------
\* i is the place of the first fallback of row e that is in avail.
FirstAvailableAt(e, avail, i) ==
    /\ i \in DOMAIN e.fallbacks
    /\ InSeq(e.fallbacks[i], avail)
    /\ \A j \in 1..(i - 1) : ~InSeq(e.fallbacks[j], avail)

\* C9: whenever a member's active assignment has a primary bot that is not
\* in available_bots and a fallback that is, every resolve call returns the
\* first such fallback in stored order and leaves that assignment active
\* with the returned bot as its primary.
ResolveUsesFirstFallback ==
    \A g \in Guilds, u \in Members, avail \in AvailLists :
        \A e \in ActiveRows(assignments, g, u) :
            \A i \in DOMAIN e.fallbacks :
                (~InSeq(e.bot, avail) /\ FirstAvailableAt(e, avail, i)) =>
                    \A o \in ResolveOutcomes(assignments, g, u, avail) :
                        /\ o.result = e.fallbacks[i]
                        /\ \E r \in ActiveRows(o.rows, g, u) :
                              r.id = e.id /\ r.bot = o.result

\* C9 witness: the latest resolve call skipped an unavailable first fallback
\* and promoted the second one, which is now the stored primary.
ResolveFallbackWitness ==
    /\ asg_call.op = "resolve"
    /\ asg_call.path = "fallback"
    /\ \E r \in ActiveRows(assignments, asg_call.guild, asg_call.user) :
          /\ r.bot = asg_call.result
          /\ Len(r.fallbacks) = 2
          /\ r.fallbacks[2] = r.bot
          /\ ~InSeq(r.fallbacks[1], asg_call.avail)

\* C10: two resolve calls in immediate succession for the same
\* (guild, member) with the same available_bots return the same bot.
ResolveTwiceSame ==
    [][(/\ asg_call.op = "resolve"
        /\ asg_call'.op = "resolve"
        /\ asg_call'.guild = asg_call.guild
        /\ asg_call'.user = asg_call.user
        /\ asg_call'.avail = asg_call.avail)
       => asg_call'.result = asg_call.result]_vars

\* Every (guild, member) pair has at most one active assignment row.
OneActivePerPair(rows) ==
    \A g \in Guilds, u \in Members : Cardinality(ActiveRows(rows, g, u)) <= 1

AllResolversIdle == \A k \in Resolvers : ~Busy(k)

\* C7: after any sequence of resolve, reassign and deactivate calls run one
\* after another, every (guild, member) pair has at most one active row.
SequentialOneActive == OneActivePerPair(assignments)

\* C7 witness: a resolve call has superseded an earlier assignment, so the
\* pair holds an inactive row next to its active one.
SupersededWitness ==
    /\ asg_call.op = "resolve"
    /\ asg_call.path = "created"
    /\ \E r1, r2 \in PairRows(assignments, asg_call.guild, asg_call.user) :
          r1.active /\ ~r2.active

\* C8: once every interleaved resolve call has finished, every
\* (guild, member) pair has at most one active row.
SettledOneActive == AllResolversIdle => OneActivePerPair(assignments)

\* C8 witness: two resolve calls overlapped on a pair, one of them lost the
\* insert to the other, both have finished and the pair has its active row.
RacedAndSettledWitness ==
    /\ asg_raced
    /\ AllResolversIdle
    /\ \E g \in Guilds, u \in Members : ActiveRows(assignments, g, u) # {}

\* C11: whatever store call raises, resolve answers with a bot of
\* available_bots when the list is not empty, and with none only when it
\* is empty.
ResolveNeverFails ==
    \A g \in Guilds, u \in Members, avail \in AvailLists, failing \in StoreOps :
        \A o \in FaultyOutcomes(assignments, g, u, avail, failing)
                    \cup ResolveOutcomes(assignments, g, u, avail) :
            IF avail = <<>> THEN o.result = None
            ELSE InSeq(o.result, avail)

\* C11 witness: the latest resolve call met a failing store call, answered
\* from the outer except branch and returned the first available bot.
ResolveDegradedWitness ==
    /\ asg_call.op = "resolve"
    /\ asg_call.path = "first"
    /\ Len(asg_call.avail) >= 2
    /\ asg_call.result = asg_call.avail[1]

\* ---------------------------------------------------------------------
\* Claims about CampaignController
\* ---------------------------------------------------------------------
TargetsOf(cid) == {i \in DOMAIN targets : targets[i].campaign_id = cid}
NumWithStatus(cid, st) ==
    Cardinality({i \in TargetsOf(cid) : targets[i].status = st})

\* The stored status and mode of a campaign, None before it is created.
StatusOf(cid) ==
    IF cid \in DOMAIN campaigns THEN campaigns[cid].status ELSE None
ModeOf(cid) ==
    IF cid \in DOMAIN campaigns THEN campaigns[cid].mode ELSE None

\* C1: for every campaign with status completed, completed_targets +
\* failed_targets + skipped targets + pending targets = total_targets.
CompletedCountsAddUp ==
    \A cid \in DOMAIN campaigns :
        campaigns[cid].status = "completed" =>
            campaigns[cid].completed_targets + campaigns[cid].failed_targets
              + NumWithStatus(cid, "skipped") + NumWithStatus(cid, "pending")
            = campaigns[cid].total_targets

\* C2: a started paced campaign on a fleet of live, ready workers whose
\* sends are answered eventually has status completed with every one of
\* its targets sent or failed.
PacedCampaignEnds ==
    \A cid \in CampaignIds :
        (ModeOf(cid) = "paced" /\ StatusOf(cid) = "running")
        ~> (/\ StatusOf(cid) = "completed"
            /\ \A i \in TargetsOf(cid) : targets[i].status \in Terminal)

\* C12: a start_campaign call sets a pending campaign running and registers
\* its execution task; on any other status it leaves the campaigns, the
\* targets, the task registry and the tasks as they are.
StartOnlyFromPending ==
    [][\A cid \in CampaignIds, late \in BOOLEAN :
          StartCampaign(cid, late) =>
              IF campaigns[cid].status = "pending"
              THEN /\ campaigns'[cid].status = "running"
                   /\ cid \notin campaign_tasks
                   /\ cid \in campaign_tasks'
                   /\ cid \in DOMAIN exec_task'
              ELSE /\ ~camp_call'.ok
                   /\ UNCHANGED <<campaigns, targets, campaign_tasks, exec_task>>]_vars

\* C12 witness: start_campaign was called on a paused campaign, answered
\* with an error, and the campaign is still paused.
StartRefusedWitness ==
    /\ camp_call.op = "start"
    /\ camp_call.found = "paused"
    /\ ~camp_call.ok
    /\ StatusOf(camp_call.cid) = "paused"

\* C13: a start_campaign call on a paused campaign sets it running again
\* and registers an execution task for its remaining pending targets.
PausedCampaignRestarts ==
    [][\A cid \in CampaignIds, late \in BOOLEAN :
          (StartCampaign(cid, late) /\ campaigns[cid].status = "paused") =>
              /\ campaigns'[cid].status = "running"
              /\ cid \in campaign_tasks']_vars

\* C14: a cancel_campaign call on a completed campaign leaves its status
\* completed.
CancelKeepsCompleted ==
    [][\A cid \in CampaignIds, landed \in Landings :
          (CancelCampaign(cid, landed) /\ campaigns[cid].status = "completed")
              => campaigns'[cid].status = "completed"]_vars

\* C15: a campaign whose stored status is cancelled keeps that status: no
\* later step of its execution task writes completed over it.
CancelledStays ==
    [][\A cid \in CampaignIds :
          StatusOf(cid) = "cancelled" => StatusOf(cid)' = "cancelled"]_vars

\* A message for member u has been handed to a worker: it waits in a live
\* worker's queue or its send attempt has been recorded.
Dispatched(u) ==
    \/ \E b \in DOMAIN active_workers :
          \E i \in DOMAIN active_workers[b].queue :
              active_workers[b].queue[i].user_id = u
    \/ \E r \in Range(sends) : r.user_id = u

\* C16: when a scheduled campaign is marked completed, every one of its
\* targets has been dispatched to a worker.
ScheduledDispatchesAll ==
    \A cid \in CampaignIds :
        (ModeOf(cid) = "scheduled" /\ StatusOf(cid) = "completed") =>
            \A i \in TargetsOf(cid) : Dispatched(targets[i].user_id)

\* C17: get_available_bots_for_guild returns exactly the live workers that
\* are ready, healthy or degraded and have fewer than 100 queued messages,
\* each once, in non-decreasing order of queue depth.
AvailableExactlyUsable ==
    [][\A order \in Shuffles(DOMAIN active_workers) :
          GetAvailableBots(order) =>
              /\ Range(avail_obs') =
                     {b \in DOMAIN active_workers :
                         /\ active_workers[b].ready
                         /\ active_workers[b].health \in {"healthy", "degraded"}
                         /\ Len(active_workers[b].queue) < 100}
              /\ \A i, j \in DOMAIN avail_obs' :
                     i # j => avail_obs'[i] # avail_obs'[j]
              /\ SortedByQueue(avail_obs', active_workers)]_vars

\* A scan returned two workers in order of their queues and left out a ready,
\* healthy worker whose queue holds exactly 100 messages.
AvailableAtLimitWitness ==
    /\ Len(avail_obs) = 2
    /\ Len(active_workers[avail_obs[1]].queue) = 0
    /\ Len(active_workers[avail_obs[2]].queue) = 99
    /\ \E b \in DOMAIN active_workers :
          /\ active_workers[b].ready
          /\ active_workers[b].health = "healthy"
          /\ Len(active_workers[b].queue) = 100
          /\ ~InSeq(b, avail_obs)

\* C18: a bot whose worker failed to start (decrypt or connection) still has
\* its record, and the record's status is error.
StartFailureMarksError ==
    \A b \in DOMAIN worker_life :
        worker_life[b] = "failed" =>
            (b \in DOMAIN bots /\ bots[b] = "error")

\* C19: once remove_bot has answered success for a bot and no event of its
\* worker is outstanding, the bot has no live worker, no bot record and no
\* health row.
RemovedBotLeavesNothing ==
    \A b \in DOMAIN removing :
        (removing[b] = "done" /\ b \notin DOMAIN worker_life) =>
            /\ b \notin DOMAIN active_workers
            /\ b \notin DOMAIN bots
            /\ b \notin DOMAIN bot_health

\* C20: every send attempt, whatever its outcome, appends exactly one Send
\* record, the attempt's own, and no step changes or removes a record
\* already in the log.
SendLogAppendOnly ==
    [][/\ \A b \in FleetBots, o \in SendOutcomes :
             WorkerProcess(b, o) =>
                 /\ Len(sends') = Len(sends) + 1
                 /\ sends'[Len(sends')] =
                        Recorded(Head(active_workers[b].queue), b, o)
       /\ Len(sends') >= Len(sends)
       /\ SubSeq(sends', 1, Len(sends)) = sends]_vars

\* The log holds a rate-limited attempt and, behind it, the retry of the
\* same message that succeeded.
SendRetryLoggedWitness ==
    \E i, j \in DOMAIN sends :
        /\ i < j
        /\ sends[i].user_id = sends[j].user_id
        /\ sends[i].bot_id = sends[j].bot_id
        /\ sends[i].status = "rate_limited"
        /\ sends[j].status = "success"

ToMigrate(rows, old, g) == {r \in rows : r.guild = g /\ r.bot = old /\ r.active}

\* What C22 says of one call: no active row of the guild points at old, the
\* migrated rows point at new, every other row is untouched, and the count
\* returned is the number of migrated rows.
ReassignEffect(old, new, g) ==
    /\ \A r \in assignments' : (r.guild = g /\ r.active) => r.bot # old
    /\ \A r \in ToMigrate(assignments, old, g) :
           [r EXCEPT !.bot = new] \in assignments'
    /\ \A r \in assignments \ ToMigrate(assignments, old, g) :
           r \in assignments'
    /\ Cardinality(assignments') = Cardinality(assignments)
    /\ asg_call'.count = Cardinality(ToMigrate(assignments, old, g))

\* C22 as stated: every reassign_bot_members call has that effect.
ReassignMigratesAll ==
    [][\A old \in Bots, new \in Bots, g \in ReGuilds :
          AsgReassign(old, new, g) => ReassignEffect(old, new, g)]_vars

\* C22, for two different bots: every reassign_bot_members(old, new, g)
\* call with old # new has that effect.
ReassignMigratesToOther ==
    [][\A old \in Bots, new \in Bots, g \in ReGuilds :
          (AsgReassign(old, new, g) /\ old # new) =>
              ReassignEffect(old, new, g)]_vars

\* A call migrated two rows of its guild while an inactive row of that guild
\* and an active row of the other guild still point at the old bot.
ReassignFrameWitness ==
    /\ asg_call.op = "reassign" /\ asg_call.count = 2
    /\ asg_call.old # asg_call.new
    /\ \E r \in assignments :
          r.guild = asg_call.guild /\ ~r.active /\ r.bot = asg_call.old
    /\ \E r \in assignments :
          r.guild # asg_call.guild /\ r.active /\ r.bot = asg_call.old

\* C23: a paused campaign stays paused until a start or a cancel changes its
\* status: no step takes it from paused to completed (or to pending).
PausedStays ==
    [][\A cid \in CampaignIds :
          StatusOf(cid) = "paused" =>
              StatusOf(cid)' \in {"paused", "running", "cancelled"}]_vars

\* C24: however start_campaign calls overlap, at most one execution task is
\* created for a campaign and no worker queue receives the message for one
\* member twice.
StartRaceOneTask ==
    /\ \A cid \in CampaignIds : tasks_created[cid] <= 1
    /\ \A b \in DOMAIN active_workers :
           \A i, j \in DOMAIN active_workers[b].queue :
               i # j => active_workers[b].queue[i].user_id #
                            active_workers[b].queue[j].user_id

\* The execution task of campaign cid puts a message on a worker queue in
\* this step.
Enqueues(cid) ==
    /\ cid \in DOMAIN exec_task /\ cid \in DOMAIN exec_task'
    /\ exec_task'[cid] # exec_task[cid]
    /\ \E b \in DOMAIN active_workers :
          /\ b \in DOMAIN active_workers'
          /\ Len(active_workers'[b].queue) > Len(active_workers[b].queue)

\* C25: once pause_campaign or cancel_campaign has returned success for a
\* campaign, its execution task puts no message on any worker queue.
NoEnqueueAfterStop ==
    [][\A cid \in stopped : ~Enqueues(cid)]_vars

\* The task of a scheduled campaign ended before it loaded the campaign: it
\* was cancelled in asyncio.sleep(delay) or right after it.
CancelledInDelay(cid) ==
    /\ cid \in DOMAIN exec_task
    /\ ModeOf(cid) = "scheduled"
    /\ StatusOf(cid) = "cancelled"
    /\ exec_task[cid].pc = "done"
    /\ exec_task[cid].mode # "scheduled"

\* C26: while the task of a scheduled campaign started ahead of its start
\* time is still in its delay, it puts no message on a worker queue, and
\* once the campaign was cancelled during the delay it never does.
ScheduledWaitsForStart ==
    [][\A cid \in CampaignIds :
          \/ (cid \in DOMAIN exec_task /\ exec_task[cid].pc = "delay")
          \/ CancelledInDelay(cid)
          => ~Enqueues(cid)]_vars

\* C26 witness: cancel_campaign met the task in its delay and ended it, and
\* no worker queue holds a message.
CancelledInDelayWitness ==
    /\ camp_call.op = "cancel" /\ camp_call.at = "delay"
    /\ CancelledInDelay(camp_call.cid)
    /\ \A b \in DOMAIN active_workers : active_workers[b].queue = <<>>
    /\ sends = <<>>


\* The targets a Send record is about: those of its member.
TargetsOfSend(r) == {i \in DOMAIN targets : targets[i].user_id = r.user_id}

\* C27: a delivery the worker completed has advanced its target to sent:
\* once the campaign's run is over, every Send record with outcome success
\* has its target in status sent.
DeliveredIsSent ==
    \A k \in DOMAIN sends :
        sends[k].status = "success" =>
            \A i \in TargetsOfSend(sends[k]) :
                StatusOf(targets[i].campaign_id) = "completed" =>
                    targets[i].status = "sent"

\* C28: a delivery attempt that ends forbidden appends a Send record with
\* outcome failed, leaves the message out of the queue and out of the
\* worker's hand, and sets the target's status to failed.
ForbiddenFailsTarget ==
    [][\A b \in FleetBots :
          WorkerProcess(b, "failed") =>
              LET msg == Head(active_workers[b].queue)
                  rec == Recorded(msg, b, "failed")
              IN  /\ sends' = Append(sends, rec)
                  /\ active_workers'[b].queue = Tail(active_workers[b].queue)
                  /\ active_workers'[b].held = NoMessage
                  /\ \A i \in TargetsOfSend(rec) :
                         targets'[i].status = "failed"]_vars

QueueIsFifo ==
    [][\A b \in FleetBots :
          (b \in DOMAIN active_workers /\ b \in DOMAIN active_workers') =>
              LET q == active_workers[b].queue
                  r == active_workers'[b].queue
              IN  /\ \/ r = q
                     \/ q # <<>> /\ r = Tail(q)
                     \/ Len(r) = Len(q) + 1 /\ SubSeq(r, 1, Len(q)) = q
                  /\ \A o \in SendOutcomes :
                         WorkerProcess(b, o) =>
                             /\ r = Tail(q)
                             /\ sends'[Len(sends')].user_id = q[1].user_id]_vars

\* C30 witness: the first message of a queue was rate-limited, the message
\* enqueued behind it was delivered next, and the first one waits in the
\* queue again.
OvertakenAfterLimitWitness ==
    \E b \in DOMAIN active_workers :
        /\ Len(sends) = 2
        /\ sends[1].status = "rate_limited" /\ sends[1].bot_id = b
        /\ sends[2].status = "success" /\ sends[2].bot_id = b
        /\ sends[1].user_id # sends[2].user_id
        /\ active_workers[b].queue # <<>>
        /\ active_workers[b].queue[Len(active_workers[b].queue)].user_id =
               sends[1].user_id

\* The messages a worker has not finished with: those in its queue and the
\* one in its hand.
Unfinished(w) == Len(w.queue) + (IF w.held # NoMessage THEN 1 ELSE 0)

\* C31: no step takes a message away from a worker except an attempt that
\* is recorded: a worker with unfinished messages stays in the live map,
\* and they shrink by no more than the Send records the step appends.
NoMessageLost ==
    [][\A b \in DOMAIN active_workers :
          Unfinished(active_workers[b]) > 0 =>
              /\ b \in DOMAIN active_workers'
              /\ Unfinished(active_workers'[b]) >=
                     Unfinished(active_workers[b])
                         - (Len(sends') - Len(sends))]_vars

\* C32: when the target in hand has no live worker, the update that
\* follows the raised exception leaves that target in status failed.
MissingWorkerFailsTarget ==
    [][\A cid \in CampaignIds :
          TaskMarkFailed(cid) =>
              \A i \in TargetsOf(cid) :
                  targets[i].user_id = exec_task[cid].cur.user_id =>
                      targets'[i].status = "failed"]_vars

\* The targets of bot b among the targets tgts.
TargetsOfBot(tgts, b) == {i \in DOMAIN tgts : tgts[i].assigned_bot_id = b}

\* C33: create_campaign adds one pending target per eligible member, in the
\* members' order; the target of the i-th member (counted from 0) goes to
\* available_bots[i mod n]; so every assigned bot is an available one and
\* the bots' target counts differ by at most one.
TargetsRoundRobin ==
    [][\A mode \in Modes, members \in CreateMemberLists,
          avail \in AvailableBotLists(active_workers) :
          CreateCampaign(mode, members, avail) =>
              LET new == SubSeq(targets', Len(targets) + 1, Len(targets'))
                  n == Len(avail)
              IN  /\ Len(new) = Len(members)
                  /\ \A i \in DOMAIN new :
                         /\ new[i].user_id = members[i]
                         /\ new[i].campaign_id = Len(campaigns')
                         /\ new[i].status = "pending"
                         /\ new[i].assigned_bot_id = avail[((i - 1) % n) + 1]
                         /\ InSeq(new[i].assigned_bot_id, avail)
                  /\ \A b1, b2 \in Range(avail) :
                         Cardinality(TargetsOfBot(new, b1)) <=
                             Cardinality(TargetsOfBot(new, b2)) + 1]_vars

\* C33 witness: three members were spread over two available bots, the
\* first and third on one bot and the second on the other.
RoundRobinWrapsWitness ==
    /\ Len(targets) = 3
    /\ Cardinality(DOMAIN active_workers) = 2
    /\ targets[1].assigned_bot_id = targets[3].assigned_bot_id
    /\ targets[2].assigned_bot_id # targets[1].assigned_bot_id
    /\ \A i \in DOMAIN targets : targets[i].status = "pending"

ErrorsCountedOnce ==
    [][\A b \in HealthBots, ending \in SendEndings :
          WorkerAttempt(b, ending) =>
              /\ active_workers'[b].errors = active_workers[b].errors +
                     (IF ending \in {"http_error", "exception"} THEN 1 ELSE 0)
              /\ ending \in {"http_error", "exception"} =>
                     sends'[Len(sends')].status = "failed"]_vars

\* C36: a run of the health loop leaves a ready worker unhealthy when its
\* error counter is at least 20, degraded when it is at least 10 and below
\* 20, healthy otherwise, and a worker that is not ready unhealthy.
HealthFollowsErrors ==
    [][\A b \in HealthBots, due \in BOOLEAN :
          HealthMonitor(b, due) =>
              LET w == active_workers'[b]
                  n == w.errors
              IN  /\ w.ready =>
                         /\ n >= 20 => w.health = "unhealthy"
                         /\ (n >= 10 /\ n < 20) => w.health = "degraded"
                         /\ n < 10 => w.health = "healthy"
                  /\ ~w.ready => w.health = "unhealthy"]_vars

\* C36 witness: a ready worker with exactly ten counted errors, the count
\* reached by a failed attempt, has been graded degraded.
DegradedAtTenWitness ==
    \E b \in DOMAIN active_workers :
        /\ active_workers[b].ready
        /\ active_workers[b].errors = 10
        /\ active_workers[b].health = "degraded"
        /\ bot_health[b] = "degraded"
        /\ sends # <<>>

\* C37: when a resolve creates a new assignment, the bot it returns and
\* stores is one of available_bots whose number of active assignments in
\* the guild, counted before the call, is the smallest, and among the bots
\* with that number it is the one that comes first in available_bots.
LeastLoadedChosen ==
    [][(asg_call'.op = "resolve" /\ asg_call'.path = "created") =>
          LET avail == asg_call'.avail IN
              \E k \in DOMAIN avail :
                  /\ asg_call'.result = avail[k]
                  /\ \E r \in ActiveRows(assignments', "g1", "m1") :
                         r.bot = avail[k]
                  /\ \A i \in DOMAIN avail :
                         /\ CountActive(assignments, "g1", avail[k]) <=
                                CountActive(assignments, "g1", avail[i])
                         /\ i < k =>
                                CountActive(assignments, "g1", avail[k]) <
                                    CountActive(assignments, "g1", avail[i])]_vars

\* C37 witness: a new assignment went to the last of three available bots,
\* which carried no member of the guild while the two in front of it
\* carried one and two.
LeastLoadedLastWitness ==
    /\ asg_call.op = "resolve" /\ asg_call.path = "created"
    /\ Len(asg_call.avail) = 3
    /\ asg_call.result = asg_call.avail[3]
    /\ CountActive(assignments, "g1", asg_call.result) = 1
    /\ CountActive(assignments, "g1", asg_call.avail[1]) = 1
    /\ CountActive(assignments, "g1", asg_call.avail[2]) = 2

\* C38: the fallback list stored with a newly created assignment has at
\* most three entries, no entry twice, only bots of available_bots, and
\* never the bot chosen as primary.
FallbacksOfNewRow ==
    [][(asg_call'.op = "resolve" /\ asg_call'.path = "created") =>
          \A r \in ActiveRows(assignments', asg_call'.guild, asg_call'.user) :
              /\ r \notin assignments
              /\ Len(r.fallbacks) <= 3
              /\ \A i, j \in DOMAIN r.fallbacks :
                     r.fallbacks[i] = r.fallbacks[j] => i = j
              /\ \A i \in DOMAIN r.fallbacks :
                     /\ InSeq(r.fallbacks[i], asg_call'.avail)
                     /\ r.fallbacks[i] # r.bot]_vars

\* C38 witness: an assignment created from five available bots keeps three
\* of the four others as fallbacks.
FallbacksCutWitness ==
    /\ asg_call.op = "resolve" /\ asg_call.path = "created"
    /\ Len(asg_call.avail) = 5
    /\ \E r \in ActiveRows(assignments, asg_call.guild, asg_call.user) :
           r.bot = asg_call.result /\ Len(r.fallbacks) = 3

\* C39: a resolve that promotes a fallback changes the primary of the row
\* and nothing else: the fallback list is the one stored before, so the
\* promoted bot is still in it and the former primary was not put in.
PromotionKeepsFallbacks ==
    [][(asg_call'.op = "resolve" /\ asg_call'.path = "fallback") =>
          \A old \in ActiveRows(assignments, asg_call'.guild, asg_call'.user) :
              \E new \in ActiveRows(assignments', asg_call'.guild,
                                     asg_call'.user) :
                  /\ new.id = old.id
                  /\ new.bot = asg_call'.result
                  /\ new.bot # old.bot
                  /\ new.fallbacks = old.fallbacks
                  /\ InSeq(new.bot, new.fallbacks)
                  /\ assignments' = (assignments \ {old}) \cup {new}]_vars

\* C39 witness: the last of three stored fallbacks has become the primary
\* and is still listed as a fallback, the replaced primary is not.
PromotedStillListedWitness ==
    /\ asg_call.op = "resolve" /\ asg_call.path = "fallback"
    /\ \E r \in ActiveRows(assignments, asg_call.guild, asg_call.user) :
           /\ Len(r.fallbacks) = 3
           /\ r.bot = asg_call.result
           /\ r.bot = r.fallbacks[3]

\* C40: a bucket that was never given a reset time or a retry-after never
\* blocks.  Only update_rate_limits puts a future reset time or retry-after
\* into a bucket; a call to acquire() starts to sleep on a bucket only when
\* the bucket holds one, and on the global cooldown only when one is set.
\* So the calls on a fresh bucket, with no global cooldown, all return
\* without sleeping until update_rate_limits has fed that bucket.
UnfedBucketNeverBlocks ==
    [][\A b \in LimBuckets :
          /\ (buckets'[b].reset > buckets[b].reset \/
              buckets'[b].retry > buckets[b].retry) =>
                 \E h \in Headers, is429 \in BOOLEAN :
                     /\ h.reset_after # NoHeader \/ h.retry_after # NoHeader
                     /\ LimUpdateBucket(b, h, is429)
          /\ \A c \in LCallers :
                 /\ (lpc[c] # "bsleep" /\ lpc'[c] = "bsleep" /\ lbucket'[c] = b) =>
                        buckets[b].reset > 0 \/ buckets[b].retry > 0
                 /\ (lpc[c] # "gsleep" /\ lpc'[c] = "gsleep") =>
                        global_rate_limit > 0]_vars

\* C40 witness: both callers made their last call on a bucket that still
\* has the values it was constructed with, and both returned without a
\* sleep while no cooldown was set.
UnfedBucketServedWitness ==
    /\ buckets["guild_members"] = [FreshBucket EXCEPT !.exists = TRUE]
    /\ \A c \in LCallers : lpc[c] = "idle" /\ lbucket[c] = "guild_members"
    /\ lim_event.kind = "return" /\ ~lim_event.slept
    /\ global_rate_limit = 0 /\ cooldown_obs = 0

====
